---- MODULE Spec2Model ----
(***************************************************************************)
(* A model of iscctl (src/utils/iscctl/iscctl.py): the command codec       *)
(* (APDU.serialize), the key block loader (_load_ds4key_and_check) and the *)
(* top-level operations that talk to the token over one connection.        *)
(*                                                                         *)
(* Three specifications share the variables:                               *)
(*   SpecCodec  APDU.serialize applied to commands drawn from bounded sets *)
(*   SpecKey    _load_ds4key_and_check applied to bounded key blocks       *)
(*   Spec       one run of the program: main dispatches one operation,     *)
(*              the token answers every exchange nondeterministically      *)
(***************************************************************************)
EXTENDS Integers, Sequences, FiniteSets, TLC

VARIABLES
  apdu,             \* SpecCodec: the APDU object serialize is applied to
  wire,             \* SpecCodec: the bytes serialize returned
  pc,               \* position of the program
  args,             \* the parsed command line (argparse namespace)
  exc,              \* the exception that ended the run, or "none"
  out,              \* the lines printed that report a result
  conn,             \* the card connection: "none", "connected", "disconnected"
  disconnects,      \* number of conn.disconnect() calls
  sent,             \* the command byte lists handed to conn.transmit, in order
  recv,             \* the (resp, sw1, sw2) each transmit returned, in order
  ds4keyfile,       \* import-ds4key: the bytes of the key file
  ds4key,           \* import-ds4key: the DS4FullKeyBlock read from the file
  oversized_e,      \* import-ds4key: the flag _load_ds4key_and_check returns
  step,             \* index of the next command of a straight-line sequence
  ca,               \* test-auth, sign-ds4id: the loaded CA key, or NoKey
  id_verification,  \* test-auth: the local variable of that name
  nonce,            \* test-auth: os.urandom(0x100)
  nonce_io,         \* test-auth: nonce_io.tell()
  page,             \* test-auth: the page counter
  chunks,           \* test-auth: chunks; export: fields
  response_obj,     \* test-auth: the decoded DS4Response; export: the record
  cuk_pub,          \* test-auth: the key _ds4id_to_key returned
  hop1,             \* test-auth: outcome of ca_pss.verify ("none" before)
  hop2,             \* test-auth: outcome of cuk_pss.verify ("none" before)
  files,            \* export-ds4id: the files written
  fields,           \* _do_export_ds4id: the bytes of the fields received
  ds4id_signed,     \* _do_export_ds4id: the record it returns
  tokResp,          \* token: the response record it has prepared
  faults            \* token: replies so far that deviate from the protocol

vars == <<apdu, wire, pc, args, exc, out, conn, disconnects, sent, recv,
          ds4keyfile, ds4key, oversized_e, step, ca, id_verification, nonce,
          nonce_io, page, chunks, response_obj, cuk_pub, hop1, hop2, files,
          fields, ds4id_signed, tokResp, faults>>

codecVars == <<apdu, wire>>
keyVars == <<ds4keyfile, ds4key, oversized_e>>
authVars == <<ca, id_verification, nonce, nonce_io, page, chunks, response_obj,
              cuk_pub, hop1, hop2>>
connVars == <<conn, disconnects>>
exportVars == <<fields, ds4id_signed>>

(***************************************************************************)
(* Program constants                                                       *)
(***************************************************************************)
ISOCLA == 0
ISOINS_SELECT == 164
ISOP1_SELECT_BY_DF_NAME == 4
ISOP2_FIRST_RECORD == 4
ISCCLA_auth == 128
ISCCLA_config == 144
ISCAuthINS_set_challenge == 68
ISCAuthINS_get_response == 70
ISCAuthINS_reset == 72
ISCConfigINS_get_version == 0
ISCConfigINS_get_status == 1
ISCConfigINS_reset == 15
ISCConfigINS_import == 16
ISCConfigINS_export == 32
ISCConfigINS_gen_keys == 253
ISCConfigINS_enter_stealth_mode == 254
ISCConfigINS_nuke == 255
ISCImportType_serial == 128
ISCImportType_pub_n == 1
ISCImportType_pub_e == 2
ISCImportType_pub_e_compat == 131
ISCImportType_sig_id == 4
ISCImportType_priv_p == 16
ISCImportType_priv_q == 17
ISCImportType_priv_pq == 18
ISCImportType_priv_dp1 == 19
ISCImportType_priv_dq1 == 20

AID == <<17, 30, 154, 21, 236, 0>>
ISC_MAGIC == <<17, 30, 154, 21, 236>>

\* field sizes of the ctypes structures
SerialSize == 16
ModulusSize == 256
ExponentSize == 256
SigSize == 256
CrtSize == 128
NonceSize == 256
VersionSize == 7

sizeof_DS4IdentityBlock == SerialSize + ModulusSize + ExponentSize
sizeof_DS4SignedIdentityBlock == sizeof_DS4IdentityBlock + SigSize
sizeof_DS4PrivateKeyBlock == 5 * CrtSize
sizeof_DS4FullKeyBlock == sizeof_DS4SignedIdentityBlock + sizeof_DS4PrivateKeyBlock
sizeof_DS4Response == SigSize + sizeof_DS4SignedIdentityBlock

(***************************************************************************)
(* Bounds of the model                                                     *)
(***************************************************************************)
\* lengths and response lengths tried lie within this distance of a boundary
MaxDelta == 1
\* the integers of a key block (p, q, e and the values put in their place)
MaxKeyInt == 7

(***************************************************************************)
(* Bytes                                                                   *)
(***************************************************************************)
Byte == 0..255

\* val & 0xff, val & 0xffff on Python integers (two's complement, any sign)
And_ff(val) == val % 256
And_ffff(val) == val % 65536

\* int.to_bytes least significant byte first: the byte order mistaken
int_to_bytes_little(v, size) == [i \in 1..size |-> (v \div (256 ^ (i - 1))) % 256]

\* int.to_bytes(v, size, 'big') for 0 <= v < 256^size
int_to_bytes(v, size) == [i \in 1..size |-> (v \div (256 ^ (size - i))) % 256]

Max(a, b) == IF a >= b THEN a ELSE b
Min(a, b) == IF a <= b THEN a ELSE b

(***************************************************************************)
(* APDU.serialize.  payload None is the empty sequence: the code treats    *)
(* both alike (lc = 0, no length field, no payload bytes).                 *)
(***************************************************************************)
APDU(cla, ins, p1, p2, payload, le, force_extended) ==
  [cla |-> cla, ins |-> ins, p1 |-> p1, p2 |-> p2, payload |-> payload,
   le |-> le, force_extended |-> force_extended]

\* the commands the program builds never set force_extended
Cmd(cla, ins, p1, p2, payload, le) == APDU(cla, ins, p1, p2, payload, le, FALSE)

\* a slip at the short-form ceiling of the payload length
extended_late(self, lc) ==
  \/ (self.force_extended /\ (lc > 0 \/ self.le > 0))
  \/ (lc > 256 \/ self.le > 256)

extended(self, lc) ==
  \/ (self.force_extended /\ (lc > 0 \/ self.le > 0))
  \/ (lc > 255 \/ self.le > 256)

header(self) ==
  <<And_ff(self.cla), And_ff(self.ins), And_ff(self.p1), And_ff(self.p2)>>

serialize(self) ==
  LET lc == Len(self.payload)
      ext == extended(self, lc)
      length_field_size == IF ext THEN 2 ELSE 1
      mask(v) == IF ext THEN And_ffff(v) ELSE And_ff(v)
  IN  header(self)
        \o (IF ext THEN <<0>> ELSE <<>>)
        \o (IF Len(self.payload) > 0
              THEN int_to_bytes(mask(lc), length_field_size) \o self.payload
              ELSE <<>>)
        \o (IF self.le > 0
              THEN int_to_bytes(mask(self.le), length_field_size)
              ELSE <<>>)

(***************************************************************************)
(* The binary records.  A record is the sequence of its bytes; a field is  *)
(* the slice at its offset (ctypes, _pack_ = 1: no padding).               *)
(***************************************************************************)
Field(rec, offset, size) == SubSeq(rec, offset + 1, offset + size)

\* DS4IdentityBlock
id_serial(rec) == Field(rec, 0, SerialSize)
id_modulus(rec) == Field(rec, SerialSize, ModulusSize)
id_exponent(rec) == Field(rec, SerialSize + ModulusSize, ExponentSize)

\* DS4SignedIdentityBlock
signed_identity_of(rec) == Field(rec, 0, sizeof_DS4IdentityBlock)
signed_sig_identity(rec) == Field(rec, sizeof_DS4IdentityBlock, SigSize)

\* DS4FullKeyBlock
key_identity(rec) == Field(rec, 0, sizeof_DS4IdentityBlock)
key_sig_identity(rec) == Field(rec, sizeof_DS4IdentityBlock, SigSize)
key_private(rec, k) ==
  Field(rec, sizeof_DS4SignedIdentityBlock + k * CrtSize, CrtSize)
key_p(rec) == key_private(rec, 0)
key_q(rec) == key_private(rec, 1)
key_dp1(rec) == key_private(rec, 2)
key_dq1(rec) == key_private(rec, 3)
key_pq(rec) == key_private(rec, 4)

\* DS4Response
resp_sig(rec) == Field(rec, 0, SigSize)
resp_signed_identity(rec) == Field(rec, SigSize, sizeof_DS4SignedIdentityBlock)

\* Crypto.Util.number.bytes_to_long: big-endian.  Leading zero bytes add
\* nothing, so the sum runs over the bytes from the first nonzero one.
bytes_sum(bs) ==
  LET nz == {i \in 1..Len(bs) : bs[i] # 0}
      first == IF nz = {} THEN Len(bs) + 1
               ELSE CHOOSE i \in nz : \A j \in nz : i <= j
      f[i \in (first - 1)..Len(bs)] ==
        IF i = first - 1 THEN 0 ELSE f[i - 1] * 256 + bs[i]
  IN  f[Len(bs)]

\* (the bytes are evaluated once)
bytes_to_long(bs) == CHOOSE v \in { bytes_sum(b) : b \in {bs} } : TRUE

\* an unsigned integer as a big-endian field of the given size
long_to_bytes(v, size) ==
  [i \in 1..size |-> IF size - i >= 3 THEN 0 ELSE (v \div (256 ^ (size - i))) % 256]

\* e > 0xffffffff for a big-endian field: a nonzero byte above the low four
exceeds_32bit(bs) == \E i \in 1..(Len(bs) - 4) : bs[i] # 0

(***************************************************************************)
(* Integer arithmetic of Crypto.Math.Numbers.Integer                       *)
(***************************************************************************)
RECURSIVE gcd(_, _)
gcd(a, b) == IF b = 0 THEN a ELSE gcd(b, a % b)

is_prime(v) == v >= 2 /\ \A k \in 2..(v - 1) : v % k # 0

\* Integer(a).inverse(m): "ok" with the inverse in 0..m-1, or the exception
inverse(a, m) ==
  IF m = 0 THEN [exc |-> "ZeroDivisionError", value |-> 0]
  ELSE IF m < 0 THEN [exc |-> "ValueError: modulus negative", value |-> 0]
  ELSE IF gcd(a % m, m) # 1 THEN [exc |-> "ValueError: no inverse", value |-> 0]
  ELSE [exc |-> "none", value |-> CHOOSE x \in 0..(m - 1) : (a * x) % m = 1 % m]

\* Integer(a) % m
modulo(a, m) ==
  IF m = 0 THEN [exc |-> "ZeroDivisionError", value |-> 0]
  ELSE IF m < 0 THEN [exc |-> "ValueError: modulus negative", value |-> 0]
  ELSE [exc |-> "none", value |-> a % m]

(***************************************************************************)
(* Python integers have no width.  A number that does not fit a TLC        *)
(* integer is kept as the sequence of its base-256 digits, least           *)
(* significant first and without high zeros (zero is the empty sequence).  *)
(***************************************************************************)
big_strip(x) ==
  LET nz == {i \in 1..Len(x) : x[i] # 0}
  IN  IF nz = {} THEN <<>>
      ELSE SubSeq(x, 1, CHOOSE i \in nz : \A j \in nz : j <= i)

\* bytes_to_long for a value of any size
big_from_bytes(bs) == big_strip([i \in 1..Len(bs) |-> bs[Len(bs) + 1 - i]])

big_digit(x, i) == IF i <= Len(x) THEN x[i] ELSE 0

big_less(a, b) ==
  \/ Len(a) < Len(b)
  \/ /\ Len(a) = Len(b)
     /\ \E i \in 1..Len(a) :
          /\ a[i] < b[i]
          /\ \A j \in (i + 1)..Len(a) : a[j] = b[j]

big_add(a, b) ==
  LET n == Max(Len(a), Len(b)) + 1
      carry[i \in 0..n] ==
        IF i = 0 THEN 0
        ELSE (big_digit(a, i) + big_digit(b, i) + carry[i - 1]) \div 256
  IN  big_strip([i \in 1..n |->
        (big_digit(a, i) + big_digit(b, i) + carry[i - 1]) % 256])

\* a - b for a >= b
big_sub(a, b) ==
  LET borrow[i \in 0..Len(a)] ==
        IF i = 0 THEN 0
        ELSE IF a[i] - big_digit(b, i) - borrow[i - 1] < 0 THEN 1 ELSE 0
  IN  big_strip([i \in 1..Len(a) |->
        (a[i] - big_digit(b, i) - borrow[i - 1] + 256) % 256])

\* a * m for a digit m
big_mul_digit(a, m) ==
  LET n == Len(a) + 1
      carry[i \in 0..n] ==
        IF i = 0 THEN 0 ELSE (big_digit(a, i) * m + carry[i - 1]) \div 256
  IN  big_strip([i \in 1..n |-> (big_digit(a, i) * m + carry[i - 1]) % 256])

RECURSIVE big_mul(_, _)
big_mul(a, b) ==
  IF b = <<>> THEN <<>>
  ELSE LET rest == big_mul(a, Tail(b))
       IN  big_add(big_mul_digit(a, b[1]),
                   IF rest = <<>> THEN <<>> ELSE <<0>> \o rest)

\* one step of long division: the next digit of the dividend brought down
big_divmod_step(prev, digit, b) ==
  LET r2 == big_strip(<<digit>> \o prev.r)
      qd == CHOOSE c \in 0..255 :
              /\ ~big_less(r2, big_mul_digit(b, c))
              /\ big_less(r2, big_add(big_mul_digit(b, c), b))
  IN  [q |-> big_strip(<<qd>> \o prev.q), r |-> big_sub(r2, big_mul_digit(b, qd))]

\* long division of the top t digits of a by b > 0.  (The one-element sets
\* make TLC compute the inner result before it is used.)
RECURSIVE big_divmod_digits(_, _, _)
big_divmod_digits(a, b, t) ==
  IF t = 0 THEN [q |-> <<>>, r |-> <<>>]
  ELSE CHOOSE res \in { big_divmod_step(prev, a[Len(a) + 1 - t], b) :
                          prev \in { big_divmod_digits(a, b, t - 1) } } : TRUE

\* quotient and remainder of a by b > 0
big_divmod(a, b) ==
  CHOOSE res \in { big_divmod_digits(x, y, Len(x)) : x \in {a}, y \in {b} } : TRUE

RECURSIVE big_gcd(_, _)
big_gcd(a, b) ==
  IF b = <<>> THEN a
  ELSE CHOOSE g \in { big_gcd(b, r) : r \in { big_divmod(a, b).r } } : TRUE

\* one step of Euclid's algorithm with the cofactors kept modulo m
big_egcd_step(r0, r1, x0, x1, m) ==
  LET dm == big_divmod(r0, r1)
      qx == big_divmod(big_mul(dm.q, x1), m).r
  IN  [r |-> dm.r,
       x |-> IF big_less(x0, qx) THEN big_sub(big_add(x0, m), qx)
             ELSE big_sub(x0, qx)]

\* Euclid's algorithm on r0, r1 with cofactors x0, x1 (r0 = x0 * a and
\* r1 = x1 * a modulo m): the gcd and its cofactor
RECURSIVE big_egcd(_, _, _, _, _)
big_egcd(r0, r1, x0, x1, m) ==
  IF r1 = <<>> THEN [gcd |-> r0, x |-> x0]
  ELSE CHOOSE g \in { big_egcd(r1, s.r, x1, s.x, m) :
                        s \in { big_egcd_step(r0, r1, x0, x1, m) } } : TRUE

\* x - 1 as a sign and a magnitude
big_pred(x) ==
  IF x = <<>> THEN [sign |-> -1, mag |-> <<1>>]
  ELSE IF x = <<1>> THEN [sign |-> 0, mag |-> <<>>]
  ELSE [sign |-> 1, mag |-> big_sub(x, <<1>>)]

big_times(x, y) == [sign |-> x.sign * y.sign, mag |-> big_mul(x.mag, y.mag)]

\* Integer(a).inverse(m) for a >= 0 and a signed m
big_inverse(a, m) ==
  IF m.sign = 0 THEN [exc |-> "ZeroDivisionError", value |-> <<>>]
  ELSE IF m.sign < 0 THEN [exc |-> "ValueError: modulus negative", value |-> <<>>]
  ELSE CHOOSE res \in
         { IF g.gcd # <<1>> THEN [exc |-> "ValueError: no inverse", value |-> <<>>]
           ELSE [exc |-> "none", value |-> big_divmod(g.x, m.mag).r] :
             g \in { big_egcd(y, big_divmod(x, y).r, <<>>, <<1>>, y) :
                       x \in {a}, y \in {m.mag} } } : TRUE

\* Integer(a) % m for a >= 0 and a signed m
big_modulo(a, m) ==
  IF m.sign = 0 THEN [exc |-> "ZeroDivisionError", value |-> <<>>]
  ELSE IF m.sign < 0 THEN [exc |-> "ValueError: modulus negative", value |-> <<>>]
  ELSE [exc |-> "none", value |-> big_divmod(a, m.mag).r]

(***************************************************************************)
(* RSA.construct(..., consistency_check=True): the library raises          *)
(* ValueError unless the components form a consistent key.  The model      *)
(* keeps the conditions that bind for keys of any size.                    *)
(***************************************************************************)
rsa_public_consistent(n, e) ==
  /\ e > 1 /\ e < n
  /\ gcd(n, e) = 1
  /\ n % 2 = 1

rsa_private_consistent(n, e, d, p, q) ==
  /\ rsa_public_consistent(n, e)
  /\ d > 1 /\ d < n
  /\ p * q = n
  /\ is_prime(p) /\ is_prime(q)
  /\ LET lcm == ((p - 1) * (q - 1)) \div gcd(p - 1, q - 1)
     IN  (e * d) % lcm = 1

\* a number of at most 31 bits as a TLC integer
big_to_int(x) ==
  LET f[i \in 0..Len(x)] ==
        IF i = 0 THEN 0 ELSE f[i - 1] * 256 + x[Len(x) + 1 - i]
  IN  f[Len(x)]

\* the same conditions on numbers of any size (p and q are tested for
\* primality as TLC integers: the key files of the model keep them small)
big_rsa_private_consistent(n, e, d, p, q) ==
  /\ big_less(<<1>>, e) /\ big_less(e, n)
  /\ big_gcd(n, e) = <<1>>
  /\ big_digit(n, 1) % 2 = 1
  /\ big_less(<<1>>, d) /\ big_less(d, n)
  /\ big_mul(p, q) = n
  /\ is_prime(big_to_int(p)) /\ is_prime(big_to_int(q))
  /\ LET p1 == big_pred(p).mag
         q1 == big_pred(q).mag
         lcm == big_divmod(big_mul(p1, q1), big_gcd(p1, q1)).q
     IN  big_divmod(big_mul(e, d), lcm).r = big_divmod(<<1>>, lcm).r

(***************************************************************************)
(* _load_ds4key_and_check(ds4keyfile, allow_oversized_e)                   *)
(***************************************************************************)
\* the comparison of line 261 with "and" for "or"
crt_inconsistent_all(pq, dp1, dq1, pq_from_pq, dp1_from_pq, dq1_from_pq) ==
  pq # pq_from_pq /\ dp1 # dp1_from_pq /\ dq1 # dq1_from_pq

\* a comparison of pq alone
crt_inconsistent_pq_only(pq, dp1, dq1, pq_from_pq, dp1_from_pq, dq1_from_pq) ==
  pq # pq_from_pq

crt_inconsistent(pq, dp1, dq1, pq_from_pq, dp1_from_pq, dq1_from_pq) ==
  pq # pq_from_pq \/ dp1 # dp1_from_pq \/ dq1 # dq1_from_pq

\* f.readinto(ds4key): the structure after the read, and the count read
readinto(file) ==
  [actual |-> Min(Len(file), sizeof_DS4FullKeyBlock),
   ds4key |-> [i \in 1..sizeof_DS4FullKeyBlock |->
                 IF i <= Len(file) THEN file[i] ELSE 0]]

Raised(e) == [exc |-> e, ds4key |-> <<>>, oversized_e |-> FALSE]

\* every number of the key block is below 256
narrow(blk) ==
  \A bs \in {id_modulus(key_identity(blk)), id_exponent(key_identity(blk)),
              key_p(blk), key_q(blk), key_dp1(blk), key_dq1(blk), key_pq(blk)} :
    \A i \in 1..(Len(bs) - 1) : bs[i] = 0

\* lines 243-249 for a key block with numbers of any size
wide_numbers(blk) ==
  [n |-> big_from_bytes(id_modulus(key_identity(blk))),
   e |-> big_from_bytes(id_exponent(key_identity(blk))),
   p |-> big_from_bytes(key_p(blk)),
   q |-> big_from_bytes(key_q(blk)),
   dp1 |-> big_from_bytes(key_dp1(blk)),
   dq1 |-> big_from_bytes(key_dq1(blk)),
   pq |-> big_from_bytes(key_pq(blk))]

\* lines 257-262 for the numbers k of a key block: the exception raised, and
\* the private exponent
wide_crt_check(k) ==
  LET d == big_inverse(k.e, big_times(big_pred(k.p), big_pred(k.q)))
      pq_from_pq == big_inverse(k.q, [sign |-> IF k.p = <<>> THEN 0 ELSE 1,
                                      mag |-> k.p])
      dp1_from_pq == big_modulo(d.value, big_pred(k.p))
      dq1_from_pq == big_modulo(d.value, big_pred(k.q))
  IN
  IF d.exc # "none" THEN [exc |-> d.exc, d |-> <<>>]
  ELSE IF pq_from_pq.exc # "none" THEN [exc |-> pq_from_pq.exc, d |-> <<>>]
  ELSE IF dp1_from_pq.exc # "none" THEN [exc |-> dp1_from_pq.exc, d |-> <<>>]
  ELSE IF dq1_from_pq.exc # "none" THEN [exc |-> dq1_from_pq.exc, d |-> <<>>]
  ELSE IF crt_inconsistent(k.pq, k.dp1, k.dq1, pq_from_pq.value,
                           dp1_from_pq.value, dq1_from_pq.value)
    THEN [exc |-> "ValueError: Bad key block (CRT factors inconsistent with P and Q)",
          d |-> <<>>]
  ELSE [exc |-> "none", d |-> d.value]

\* lines 257-264 for the numbers k of the key block blk
wide_checks(k, blk, oversized) ==
  CHOOSE r \in
    { IF crt.exc # "none" THEN Raised(crt.exc)
      ELSE IF ~big_rsa_private_consistent(k.n, k.e, crt.d, k.p, k.q)
        THEN Raised("ValueError: RSA.construct")
      ELSE [exc |-> "none", ds4key |-> blk, oversized_e |-> oversized] :
      crt \in {wide_crt_check(k)} } : TRUE

load_ds4key_wide(blk, oversized) ==
  CHOOSE r \in { wide_checks(k, b, oversized) :
                   k \in {wide_numbers(blk)}, b \in {blk} } : TRUE

load_ds4key_and_check(file, allow_oversized_e) ==
  LET rd == readinto(file)
      blk == rd.ds4key
      oversized == exceeds_32bit(id_exponent(key_identity(blk)))
  IN
  IF rd.actual # sizeof_DS4FullKeyBlock THEN Raised("ValueError: DS4Key too small.")
  ELSE IF oversized /\ allow_oversized_e
    THEN Raised("ValueError: Public exponent is oversized")
  ELSE IF ~narrow(blk) THEN load_ds4key_wide(blk, oversized)
  ELSE
    LET n == bytes_to_long(id_modulus(key_identity(blk)))
        e == bytes_to_long(id_exponent(key_identity(blk)))
        p == bytes_to_long(key_p(blk))
        q == bytes_to_long(key_q(blk))
        dp1 == bytes_to_long(key_dp1(blk))
        dq1 == bytes_to_long(key_dq1(blk))
        pq == bytes_to_long(key_pq(blk))
        d == inverse(e, (p - 1) * (q - 1))
        pq_from_pq == inverse(q, p)
        dp1_from_pq == modulo(d.value, p - 1)
        dq1_from_pq == modulo(d.value, q - 1)
    IN
    IF d.exc # "none" THEN Raised(d.exc)
    ELSE IF pq_from_pq.exc # "none" THEN Raised(pq_from_pq.exc)
    ELSE IF dp1_from_pq.exc # "none" THEN Raised(dp1_from_pq.exc)
    ELSE IF dq1_from_pq.exc # "none" THEN Raised(dq1_from_pq.exc)
    ELSE IF crt_inconsistent(pq, dp1, dq1, pq_from_pq.value,
                             dp1_from_pq.value, dq1_from_pq.value)
      THEN Raised("ValueError: Bad key block (CRT factors inconsistent with P and Q)")
    ELSE IF ~rsa_private_consistent(n, e, d.value, p, q)
      THEN Raised("ValueError: RSA.construct")
    ELSE [exc |-> "none", ds4key |-> blk, oversized_e |-> oversized]

(***************************************************************************)
(* SHA256 and the PSS signature scheme of the library, as functions of     *)
(* exactly their arguments: a digest of all the bytes, and a signature     *)
(* that verifies under a key for a digest iff it is the one made for them. *)
(***************************************************************************)
RECURSIVE weighted_sum(_, _, _)
weighted_sum(bs, lo, hi) ==
  IF lo > hi THEN 0
  ELSE IF lo = hi THEN (bs[lo] + 1) * ((lo % 251) + 1)
  ELSE CHOOSE s \in { weighted_sum(bs, lo, mid) + weighted_sum(bs, mid + 1, hi) :
                       mid \in {(lo + hi) \div 2} } : TRUE

\* (the bytes are evaluated once)
SHA256(bs) ==
  CHOOSE h \in { (weighted_sum(b, 1, Len(b)) + Len(b)) % 65521 : b \in {bs} } :
    TRUE

\* the number that stands for a key pair in the signature scheme
rsa_key(n, e) == (n * 31 + e) % 65521

\* (the key and the digest are evaluated once)
pss_sign(key, digest) ==
  CHOOSE sig \in { [i \in 1..SigSize |-> (k + d * i + i) % 256] :
                     k \in {key}, d \in {digest} } : TRUE

pss_verify(key, digest, signature) == signature = pss_sign(key, digest)

\* no key: the None of ca, and of cuk_pub before the identity is decoded
NoKey == 0
\* the key pairs a CA key file may hold
JEDI_CA == 4001
OTHER_CA == 4002

(***************************************************************************)
(* Key files                                                               *)
(***************************************************************************)
ExampleSerial == <<0, 0, 0, 0, 0, 0, 0, 0, 0, 1, 0, 1, 0, 0, 0, 0>>

identity_bytes(serial, n, e) ==
  serial \o long_to_bytes(n, ModulusSize) \o long_to_bytes(e, ExponentSize)

\* a DS4Key file with the given numbers, its identity signed by the Jedi CA
key_file(n, e, p, q, dp1, dq1, pq) ==
  LET id == identity_bytes(ExampleSerial, n, e)
  IN  id \o pss_sign(JEDI_CA, SHA256(id))
         \o long_to_bytes(p, CrtSize) \o long_to_bytes(q, CrtSize)
         \o long_to_bytes(dp1, CrtSize) \o long_to_bytes(dq1, CrtSize)
         \o long_to_bytes(pq, CrtSize)

\* the CRT values that belong to p, q and e (0 where there is none)
crt_of(p, q, e) ==
  LET d == IF p >= 1 /\ q >= 1 THEN inverse(e, (p - 1) * (q - 1))
           ELSE [exc |-> "none", value |-> 0]
      u == IF p >= 1 THEN inverse(q, p) ELSE [exc |-> "none", value |-> 0]
  IN  [d |-> d.value,
       dp1 |-> IF p >= 2 THEN d.value % (p - 1) ELSE 0,
       dq1 |-> IF q >= 2 THEN d.value % (q - 1) ELSE 0,
       pq |-> u.value]

KeyInts == 0..MaxKeyInt
KeyFieldNames == {"n", "p", "q", "dp1", "dq1", "pq"}

\* the numbers of a key block built from p, q, e, with at most one of them
\* replaced afterwards
key_numbers(p, q, e, field, v) ==
  LET c == crt_of(p, q, e)
      base == [n |-> p * q, e |-> e, p |-> p, q |-> q,
               dp1 |-> c.dp1, dq1 |-> c.dq1, pq |-> c.pq]
  IN  IF field = "none" THEN base ELSE [base EXCEPT ![field] = v]

file_of(k) == key_file(k.n, k.e, k.p, k.q, k.dp1, k.dq1, k.pq)

\* p and q distinct odd primes and e a public exponent for them
is_rsa_key(p, q, e) ==
  /\ is_prime(p) /\ is_prime(q) /\ p # q /\ p % 2 = 1 /\ q % 2 = 1
  /\ e > 1 /\ e < p * q /\ gcd(e, p * q) = 1 /\ gcd(e, (p - 1) * (q - 1)) = 1
  /\ e % ((p - 1) * (q - 1)) # 1

\* every block built from numbers in KeyInts, and every block that differs
\* in one value from one built from an RSA key
KeyNumbersWide ==
  { key_numbers(p, q, e, "none", 0) : p \in KeyInts, q \in KeyInts, e \in KeyInts }
  \cup
  { key_numbers(x[1], x[2], x[3], f, v) :
      x \in {y \in KeyInts \X KeyInts \X KeyInts : is_rsa_key(y[1], y[2], y[3])},
      f \in KeyFieldNames, v \in KeyInts }

(***************************************************************************)
(* SpecCodec: serialize applied once to a command drawn from bounded sets  *)
(***************************************************************************)
PayloadLens ==
  (0..MaxDelta) \cup ((255 - MaxDelta)..(256 + MaxDelta))
    \cup ((65536 - MaxDelta)..65535)

ResponseLens ==
  {-1} \cup (0..MaxDelta) \cup ((256 - MaxDelta)..(257 + MaxDelta))
    \cup ((65536 - MaxDelta)..65536)

\* class, instruction, p1, p2: the program's own and some out of byte range
Headers ==
  { <<ISOCLA, ISOINS_SELECT, ISOP1_SELECT_BY_DF_NAME, ISOP2_FIRST_RECORD>>,
    <<ISCCLA_auth, ISCAuthINS_set_challenge, 128, 0>>,
    <<ISCCLA_config, ISCConfigINS_import, ISCImportType_pub_e_compat, 0>>,
    <<255, 255, 255, 255>>,
    <<ISCCLA_auth, ISCAuthINS_get_response, 300, 256>>,
    <<ISCCLA_auth, ISCAuthINS_get_response, -1, 0>> }

PayloadSeeds == {0, 1}

PayloadOf(len, seed) == [i \in 1..len |-> ((i - 1) * 37 + seed) % 256]

NoAPDU == APDU(0, 0, 0, 0, <<>>, 0, FALSE)

\* the values of the variables that no operation has touched yet
Untouched ==
  /\ apdu = NoAPDU /\ wire = <<>>
  /\ args = [action |-> "none", aid |-> AID]
  /\ exc = "none" /\ out = <<>>
  /\ conn = "none" /\ disconnects = 0 /\ sent = <<>> /\ recv = <<>>
  /\ ds4keyfile = <<>> /\ ds4key = <<>> /\ oversized_e = FALSE /\ step = 0
  /\ ca = NoKey /\ id_verification = "none"
  /\ nonce = <<>> /\ nonce_io = 0 /\ page = 0 /\ chunks = <<>>
  /\ response_obj = <<>> /\ cuk_pub = NoKey /\ hop1 = "none" /\ hop2 = "none"
  /\ files = <<>> /\ fields = <<>> /\ ds4id_signed = <<>>
  /\ tokResp = <<>> /\ faults = 0

sessionVars == <<args, exc, out, conn, disconnects, sent, recv, ds4keyfile,
                 ds4key, oversized_e, step, ca, id_verification, nonce,
                 nonce_io, page, chunks, response_obj, cuk_pub, hop1, hop2,
                 files, exportVars, tokResp, faults>>

InitCodec == pc = "codec" /\ Untouched

Serialize ==
  /\ pc = "codec"
  /\ \E h \in Headers, n \in PayloadLens, s \in PayloadSeeds,
        le \in ResponseLens, f \in BOOLEAN :
        /\ apdu' = APDU(h[1], h[2], h[3], h[4], PayloadOf(n, s), le, f)
        /\ wire' = serialize(apdu')
  /\ pc' = "serialized"
  /\ UNCHANGED sessionVars

NextCodec == Serialize

SpecCodec == InitCodec /\ [][NextCodec]_vars

(***************************************************************************)
(* Reading a command back by the length-field rules of serialize: a fifth  *)
(* byte of zero followed by more bytes announces 2-byte length fields.     *)
(***************************************************************************)
ParseCommand(w) ==
  LET n == Len(w)
      hdr == [cla |-> w[1], ins |-> w[2], p1 |-> w[3], p2 |-> w[4]]
      none == [payload |-> <<>>, le |-> 0]
      body ==
        IF n = 4 THEN none
        ELSE IF n = 5 THEN [payload |-> <<>>, le |-> IF w[5] = 0 THEN 256 ELSE w[5]]
        ELSE IF w[5] # 0 THEN
          LET lc == w[5]
          IN  [payload |-> SubSeq(w, 6, 5 + lc),
               le |-> IF n = 5 + lc THEN 0
                      ELSE IF w[n] = 0 THEN 256 ELSE w[n]]
        ELSE IF n = 7 THEN
          LET v == w[6] * 256 + w[7]
          IN  [payload |-> <<>>, le |-> IF v = 0 THEN 65536 ELSE v]
        ELSE
          LET lc == w[6] * 256 + w[7]
              v == w[n - 1] * 256 + w[n]
          IN  [payload |-> SubSeq(w, 8, 7 + lc),
               le |-> IF n = 7 + lc THEN 0
                      ELSE IF v = 0 THEN 65536 ELSE v]
  IN  [cla |-> hdr.cla, ins |-> hdr.ins, p1 |-> hdr.p1, p2 |-> hdr.p2,
       payload |-> body.payload, le |-> body.le]

\* C7: serialize uses the short form (no reserved byte, 1-byte length
\* fields) exactly when the payload has at most 255 bytes, the response
\* length is at most 256 and force_extended is not set with a nonzero
\* length; otherwise one zero byte follows the header and every length field
\* present has 2 bytes, big-endian.  A payload length field is present only
\* for a non-empty payload, a response length field only for a nonzero
\* response length.
C7_ShortFormExactly ==
  pc = "serialized" =>
    LET lc == Len(apdu.payload)
        le == apdu.le
        short == /\ lc <= 255 /\ le <= 256
                 /\ ~(apdu.force_extended /\ (lc > 0 \/ le > 0))
        fsz == IF short THEN 1 ELSE 2
        res == IF short THEN 0 ELSE 1
        hasLc == lc > 0
        hasLe == le > 0
        lcAt == 4 + res
        leAt == 4 + res + (IF hasLc THEN fsz + lc ELSE 0)
    IN  /\ Len(wire) = leAt + (IF hasLe THEN fsz ELSE 0)
        /\ ~short => wire[5] = 0
        /\ hasLc /\ short => wire[lcAt + 1] = lc
        /\ hasLc /\ ~short =>
              /\ wire[lcAt + 1] = (lc \div 256) % 256
              /\ wire[lcAt + 2] = lc % 256
        /\ hasLc => SubSeq(wire, lcAt + fsz + 1, lcAt + fsz + lc) = apdu.payload
        /\ hasLe /\ short => wire[leAt + 1] = le % 256
        /\ hasLe /\ ~short =>
              /\ wire[leAt + 1] = (le \div 256) % 256
              /\ wire[leAt + 2] = le % 256
        /\ (lc = 0 /\ le = 0) => Len(wire) = 4

\* a payload one byte over the short ceiling goes out in extended form
C7_Witness ==
  /\ pc = "serialized"
  /\ Len(apdu.payload) = 256 /\ apdu.le = 256 /\ ~apdu.force_extended
  /\ wire[5] = 0 /\ Len(wire) = 4 + 1 + 2 + 256 + 2

\* C8: for class, instruction, p1, p2 in 0..255, a payload of at most 65535
\* bytes and a response length of at most 65536, reading the bytes serialize
\* produced by the same length-field rules gives back the class, the
\* instruction, p1, p2 and the payload.
C8_RoundTrip ==
  (/\ pc = "serialized"
   /\ apdu.cla \in Byte /\ apdu.ins \in Byte /\ apdu.p1 \in Byte /\ apdu.p2 \in Byte
   /\ Len(apdu.payload) <= 65535 /\ apdu.le \in 0..65536)
  => LET c == ParseCommand(wire)
     IN  /\ c.cla = apdu.cla /\ c.ins = apdu.ins
         /\ c.p1 = apdu.p1 /\ c.p2 = apdu.p2
         /\ c.payload = apdu.payload

C8_Witness ==
  /\ pc = "serialized"
  /\ apdu.cla = 255 /\ apdu.p2 = 255
  /\ Len(apdu.payload) = 65535 /\ apdu.le = 65536
  /\ ParseCommand(wire).payload = apdu.payload

(***************************************************************************)
(* The session: one run of the program.  main parses the command line and  *)
(* calls one operation; the operation's code runs step by step, one        *)
(* exchange with the token per step.                                       *)
(***************************************************************************)

\* the token deviates from the protocol (a status word outside the checker's
\* table, a reply of another length than asked for) at most MaxFaults times,
\* an unlisted status only within the first MaxFaultStep exchanges and
\* another length only up to page MaxFaultPage of a paged transfer
MaxFaults == 1
MaxFaultStep == 2
MaxFaultPage == 0
\* a paging loop that the token never satisfies is followed for MaxPage pages
MaxPage == 10
\* an export field may come with another length than asked for while fewer
\* than MaxFieldFaults replies have deviated, in the first MaxFaultField fields
MaxFieldFaults == 2
MaxFaultField == 2

\* status words the token answers with: success, an error of the checker's
\* table (file not found) and a pair the table does not list (wrong length
\* Le, 6C xx)
SW_OK == <<144, 0>>
SW_ERROR == <<106, 130>>
SW_UNLISTED == <<108, 16>>
StatusWords == {SW_OK, SW_ERROR, SW_UNLISTED}

\* the status pairs of the table of ISO7816_4ErrorChecker: sw1 with the set of
\* its listed sw2
iso7816_4SW(sw1) ==
  CASE sw1 = 98 -> {0, 129, 130, 131, 132, 255}
    [] sw1 = 99 -> {0, 129} \cup (192..207)
    [] sw1 = 100 -> {0}
    [] sw1 = 103 -> {0}
    [] sw1 = 104 -> {129, 130}
    [] sw1 = 105 -> 129..136
    [] sw1 = 106 -> 128..136
    [] sw1 = 107 -> {0}
    [] sw1 = 109 -> {0}
    [] sw1 = 110 -> {0}
    [] sw1 = 111 -> {0}
    [] OTHER -> {}

\* _check_error(resp, sw1, sw2) raises: the checker raises for the pairs of
\* its table and for no other pair
check_error(sw1, sw2) == sw2 \in iso7816_4SW(sw1)

Reply(resp, sw) == [resp |-> resp, sw1 |-> sw[1], sw2 |-> sw[2]]

\* the status words the token may answer the next command with
TokenStatus ==
  IF faults < MaxFaults /\ Len(sent) < MaxFaultStep THEN StatusWords
  ELSE StatusWords \ {SW_UNLISTED}

\* conn.transmit(APDU(...).to_list()): the bytes go out, the reply comes back
transmit(cmd, resp, sw, other_length) ==
  /\ sent' = Append(sent, serialize(cmd))
  /\ recv' = Append(recv, Reply(resp, sw))
  /\ faults' = IF sw = SW_UNLISTED \/ other_length THEN faults + 1 ELSE faults

\* disconnectable: leaving the with block, normally or by an exception,
\* runs thing.disconnect()
disconnectable(raised) ==
  conn' = "disconnected" /\ disconnects' = disconnects + 1

\* print(...): a line of output, with the bytes or numbers it shows
printed(text, data) == [text |-> text, data |-> data]

OTHER_AID == <<160, 0, 0, 1>>

\* main for the operations whose only arguments are the global ones
main(action, aids, first) ==
  /\ pc = "main"
  /\ \E aid \in aids : args' = [action |-> action, aid |-> aid]
  /\ pc' = first
  /\ UNCHANGED <<codecVars, exc, out, connVars, sent, recv, keyVars, step,
                 authVars, files, exportVars, tokResp, faults>>

\* do_list_readers
do_list_readers ==
  /\ pc = "main"
  /\ args' = [action |-> "list-readers", aid |-> AID]
  /\ \E readers \in 0..1 :
       out' = Append(out, IF readers = 0 THEN printed("No readers found.", <<>>)
                          ELSE printed("#", <<0>>))
  /\ pc' = "done"
  /\ UNCHANGED <<codecVars, exc, connVars, sent, recv, keyVars, step,
                 authVars, files, exportVars, tokResp, faults>>

\* the confirmation prompt: args.yes, or the answer typed, lets the run go on
confirm ==
  /\ pc = "confirm"
  /\ \E yes \in BOOLEAN :
       IF yes THEN pc' = "connect" /\ out' = out
       ELSE pc' = "done" /\ out' = Append(out, printed("Aborted.", <<>>))
  /\ UNCHANGED <<codecVars, args, exc, connVars, sent, recv, keyVars, step,
                 authVars, files, exportVars, tokResp, faults>>

\* what _do_connect_and_select meets before the SELECT: no reader; a reader
\* given by index or by name (both branches raise: len(None), beginswith);
\* the default reader, whose connect() fails or succeeds
ReaderCases == {"no readers", "index", "name", "no card", "card"}

\* _do_connect_and_select up to conn.connect()
do_connect_and_select ==
  /\ pc = "connect"
  /\ \E reader \in ReaderCases :
       /\ conn' = IF reader = "card" THEN "connected" ELSE conn
       /\ pc' = IF reader = "card" THEN "select" ELSE "done"
       /\ exc' = CASE reader = "no readers" -> "SystemExit: No readers found."
                   [] reader = "index" -> "TypeError"
                   [] reader = "name" -> "AttributeError"
                   [] reader = "no card" -> "CardConnectionException"
                   [] OTHER -> exc
  /\ UNCHANGED <<codecVars, args, out, disconnects, sent, recv, keyVars, step,
                 authVars, files, exportVars, tokResp, faults>>

\* _select(conn, args.aid), the last call of _do_connect_and_select: it runs
\* before the with block is entered, so its exception leaves the operation
\* without passing through disconnectable
select ==
  /\ pc = "select"
  /\ \E sw \in TokenStatus :
       /\ transmit(Cmd(ISOCLA, ISOINS_SELECT, ISOP1_SELECT_BY_DF_NAME,
                       ISOP2_FIRST_RECORD, args.aid, 0), <<>>, sw, FALSE)
       /\ IF check_error(sw[1], sw[2])
            THEN exc' = "SWException" /\ pc' = "done"
            ELSE exc' = exc /\ pc' = "with"
  /\ step' = 0
  /\ UNCHANGED <<codecVars, args, out, connVars, keyVars, authVars, files,
                 exportVars,
                 tokResp>>

config_reset == Cmd(ISCCLA_config, ISCConfigINS_reset, 0, 0, <<>>, 0)

\* inside the with block: the commands of cmds in order, each reply checked;
\* an error status raises; after the last command the with block is left,
\* unless more of it follows
run_commands(cmds, more) ==
  /\ pc = "with"
  /\ step < Len(cmds)
  /\ \E sw \in TokenStatus :
       /\ transmit(cmds[step + 1], <<>>, sw, FALSE)
       /\ IF check_error(sw[1], sw[2])
            THEN exc' = "SWException" /\ pc' = "done" /\ disconnectable(TRUE)
            ELSE IF step + 1 = Len(cmds) /\ ~more
              THEN exc' = exc /\ pc' = "done" /\ disconnectable(FALSE)
              ELSE exc' = exc /\ pc' = pc /\ UNCHANGED connVars
  /\ step' = step + 1

do_gen_key ==
  \/ main("gen-key", {AID, OTHER_AID}, "confirm")
  \/ /\ args.action = "gen-key"
     /\ run_commands(<<config_reset,
                       Cmd(ISCCLA_config, ISCConfigINS_gen_keys, 0, 0, <<>>, 0)>>,
                     FALSE)
     /\ UNCHANGED <<codecVars, args, out, keyVars, authVars, files,
                    exportVars, tokResp>>

do_nuke ==
  \/ main("nuke", {AID}, "confirm")
  \/ /\ args.action = "nuke"
     /\ run_commands(<<Cmd(ISCCLA_config, ISCConfigINS_nuke, 0, 0, <<>>, 0)>>,
                     FALSE)
     /\ UNCHANGED <<codecVars, args, out, keyVars, authVars, files,
                    exportVars, tokResp>>

do_enter_stealth_mode ==
  \/ main("enter-stealth-mode", {AID}, "confirm")
  \/ /\ args.action = "enter-stealth-mode"
     /\ run_commands(<<config_reset,
                       Cmd(ISCCLA_config, ISCConfigINS_enter_stealth_mode,
                           0, 0, <<>>, 0)>>, FALSE)
     /\ UNCHANGED <<codecVars, args, out, keyVars, authVars, files,
                    exportVars, tokResp>>

\* set-serial: the serial given on the command line (16 bytes, or not)
SerialArgs == {ExampleSerial, SubSeq(ExampleSerial, 1, 15)}

do_set_serial ==
  \/ /\ pc = "main"
     /\ \E serial \in SerialArgs :
          /\ args' = [action |-> "set-serial", aid |-> AID, serial |-> serial]
          /\ IF Len(serial) # 16
               THEN exc' = "ValueError: Serial number is not 16 bytes long."
                    /\ pc' = "done"
               ELSE exc' = exc /\ pc' = "connect"
     /\ UNCHANGED <<codecVars, out, connVars, sent, recv, keyVars, step,
                    authVars, files, exportVars, tokResp, faults>>
  \/ /\ args.action = "set-serial"
     /\ run_commands(<<Cmd(ISCCLA_config, ISCConfigINS_import,
                           ISCImportType_serial, 0, args.serial, 0)>>, FALSE)
     /\ UNCHANGED <<codecVars, args, out, keyVars, authVars, files,
                    exportVars, tokResp>>

\* what the token may answer to get_version and get_status
VersionReplies ==
  {ISC_MAGIC \o <<1, 0>>, <<0, 0, 0, 0, 0>> \o <<1, 0>>, ISC_MAGIC \o <<1>>}
StatusReplies == {<<0>>, <<1>>, <<>>}

do_applet_info ==
  \/ main("applet-info", {AID}, "connect")
  \/ /\ args.action = "applet-info"
     /\ run_commands(<<config_reset>>, TRUE)
     /\ UNCHANGED <<codecVars, args, out, keyVars, authVars, files,
                    exportVars, tokResp>>
  \/ /\ args.action = "applet-info" /\ pc = "with" /\ step = 1
     /\ \E sw \in TokenStatus, resp \in VersionReplies :
          /\ transmit(Cmd(ISCCLA_config, ISCConfigINS_get_version, 0, 0, <<>>, 0),
                      resp, sw, FALSE)
          /\ disconnectable(check_error(sw[1], sw[2]))
          /\ pc' = "done"
          /\ IF check_error(sw[1], sw[2]) THEN exc' = "SWException" /\ out' = out
             ELSE IF Len(resp) # VersionSize
               THEN exc' = "ValueError: Unexpected response size" /\ out' = out
             ELSE IF SubSeq(resp, 1, Len(ISC_MAGIC)) # ISC_MAGIC
               THEN exc' = "ValueError: Invalid magic" /\ out' = out
             ELSE exc' = exc
                  /\ out' = Append(out,
                        printed("Found IllegalSecurityChip applet version",
                                <<resp[Len(ISC_MAGIC) + 1],
                                  resp[Len(ISC_MAGIC) + 2]>>))
     /\ step' = step + 1
     /\ UNCHANGED <<codecVars, args, keyVars, authVars, files,
                    exportVars, tokResp>>

do_is_ready ==
  \/ main("is-ready", {AID}, "connect")
  \/ /\ args.action = "is-ready"
     /\ run_commands(<<config_reset>>, TRUE)
     /\ UNCHANGED <<codecVars, args, out, keyVars, authVars, files,
                    exportVars, tokResp>>
  \/ /\ args.action = "is-ready" /\ pc = "with" /\ step = 1
     /\ \E sw \in TokenStatus, resp \in StatusReplies :
          /\ transmit(Cmd(ISCCLA_config, ISCConfigINS_get_status, 0, 0, <<>>, 0),
                      resp, sw, FALSE)
          /\ disconnectable(check_error(sw[1], sw[2]))
          /\ pc' = "done"
          /\ IF check_error(sw[1], sw[2]) THEN exc' = "SWException" /\ out' = out
             ELSE IF Len(resp) = 0 THEN exc' = "IndexError" /\ out' = out
             ELSE exc' = exc
                  /\ out' = Append(out, IF resp[1] = 0
                                        THEN printed("Card is NOT ready", <<>>)
                                        ELSE printed("Card is ready", <<>>))
     /\ step' = step + 1
     /\ UNCHANGED <<codecVars, args, keyVars, authVars, files,
                    exportVars, tokResp>>

(***************************************************************************)
(* do_import_ds4key: the key file is loaded and checked before anything    *)
(* else.  The file and the flag are the run's inputs.                      *)
(***************************************************************************)
do_import_ds4key_load(keyfiles) ==
  /\ pc = "main"
  /\ \E file \in keyfiles, allow \in BOOLEAN :
         \E r \in {load_ds4key_and_check(file, allow)} :
           /\ args' = [action |-> "import-ds4key", aid |-> AID,
                       allow_oversized_exponent |-> allow]
           /\ ds4keyfile' = file
           /\ ds4key' = r.ds4key
           /\ oversized_e' = r.oversized_e
           /\ exc' = r.exc
           /\ pc' = IF r.exc = "none" THEN "confirm" ELSE "done"
  /\ UNCHANGED <<apdu, wire, out, conn, disconnects, sent, recv, step, ca,
                 id_verification, nonce, nonce_io, page, chunks, response_obj,
                 cuk_pub, hop1, hop2, files, exportVars, tokResp, faults>>

import_(type, payload) == Cmd(ISCCLA_config, ISCConfigINS_import, type, 0, payload, 0)

\* the compact form whatever the exponent
import_exponent_compat_always(key, oversized) ==
  import_(ISCImportType_pub_e_compat,
          SubSeq(id_exponent(key_identity(key)), ExponentSize - 3, ExponentSize))

\* lines 493-497: the exponent, whole or as its last four bytes
import_exponent(key, oversized) ==
  IF oversized
    THEN import_(ISCImportType_pub_e, id_exponent(key_identity(key)))
    ELSE import_(ISCImportType_pub_e_compat,
                 SubSeq(id_exponent(key_identity(key)),
                        ExponentSize - 3, ExponentSize))

\* the commands of do_import_ds4key's with block, in order
import_commands(key, oversized) ==
  <<config_reset,
    import_(ISCImportType_serial, id_serial(key_identity(key))),
    import_(ISCImportType_pub_n, id_modulus(key_identity(key))),
    import_exponent(key, oversized),
    import_(ISCImportType_sig_id, key_sig_identity(key)),
    import_(ISCImportType_priv_p, key_p(key)),
    import_(ISCImportType_priv_q, key_q(key)),
    import_(ISCImportType_priv_pq, key_pq(key)),
    import_(ISCImportType_priv_dp1, key_dp1(key)),
    import_(ISCImportType_priv_dq1, key_dq1(key))>>

\* the key files of a session: a key block of a small RSA key, and the blocks
\* that differ from it in one value
KeyNumbersSession ==
  { key_numbers(3, 5, 7, "none", 0) } \cup
  { key_numbers(3, 5, 7, f, v) : f \in KeyFieldNames, v \in KeyInts }

\* a field holding the number with the given big-endian bytes
padded(bs, size) == [i \in 1..size |-> IF i <= size - Len(bs) THEN 0
                                       ELSE bs[i - (size - Len(bs))]]

\* a DS4Key file of the key with p = 131101 and q = 131203, with the given
\* public exponent and the CRT exponents that belong to it
large_key_file(e, dp1, dq1) ==
  LET id == ExampleSerial \o padded(<<4, 1, 64, 14, 215>>, ModulusSize)
                         \o padded(e, ExponentSize)
  IN  id \o pss_sign(JEDI_CA, SHA256(id))
         \o padded(<<2, 0, 29>>, CrtSize) \o padded(<<2, 0, 131>>, CrtSize)
         \o padded(dp1, CrtSize) \o padded(dq1, CrtSize)
         \o padded(<<115, 122>>, CrtSize)

\* e = 2^32 + 15
OversizedKeyFile == large_key_file(<<1, 0, 0, 0, 15>>, <<1, 129, 231>>, <<227, 47>>)
\* e = 2^31 + 11
FourByteKeyFile == large_key_file(<<128, 0, 0, 11>>, <<237, 67>>, <<249, 127>>)

\* the files a session may be given: the key blocks above, the two keys
\* with a large exponent, and a file one byte short and one byte long
DS4KeyFiles ==
  { file_of(k) : k \in KeyNumbersSession }
    \cup {OversizedKeyFile, FourByteKeyFile}
    \cup { SubSeq(f, 1, Len(f) - 1) : f \in {file_of(key_numbers(3, 5, 7, "none", 0))} }
    \cup { f \o <<0>> : f \in {file_of(key_numbers(3, 5, 7, "none", 0))} }

do_import_ds4key ==
  \/ do_import_ds4key_load(DS4KeyFiles)
  \/ /\ args.action = "import-ds4key"
     /\ run_commands(import_commands(ds4key, oversized_e), FALSE)
     /\ UNCHANGED <<codecVars, args, out, keyVars, authVars, files,
                    exportVars, tokResp>>

(***************************************************************************)
(* do_test_auth                                                            *)
(***************************************************************************)
\* the files a key file argument may name: none at all, the Jedi CA's public
\* or private key, another CA's public key, a file that is no key
KeyFiles == {"missing", "jedi.pub", "jedi.pem", "other.pub", "garbage"}

\* _load_key_and_check(keyfile, JEDI_CA_PUBKEY_FINGERPRINT)
load_key_and_check(keyfile) ==
  CASE keyfile = "missing" ->
         [exc |-> "none", key |-> NoKey, fingerprint_match |-> FALSE,
          has_private |-> FALSE,
          out |-> <<printed("WARNING: Jedi CA does not exist. ID check will not be performed.", <<>>)>>]
    [] keyfile = "garbage" ->
         [exc |-> "ValueError: RSA key format is not supported", key |-> NoKey,
          fingerprint_match |-> FALSE, has_private |-> FALSE, out |-> <<>>]
    [] keyfile = "other.pub" ->
         [exc |-> "none", key |-> OTHER_CA, fingerprint_match |-> FALSE,
          has_private |-> FALSE, out |-> <<>>]
    [] OTHER ->
         [exc |-> "none", key |-> JEDI_CA, fingerprint_match |-> TRUE,
          has_private |-> (keyfile = "jedi.pem"), out |-> <<>>]

\* _ds4id_to_key: RSA.construct with consistency_check=True
ds4id_to_key(ds4id) ==
  LET n == bytes_to_long(id_modulus(ds4id))
      e == bytes_to_long(id_exponent(ds4id))
  IN  IF rsa_public_consistent(n, e)
        THEN [exc |-> "none", key |-> rsa_key(n, e)]
        ELSE [exc |-> "ValueError: RSA.construct", key |-> NoKey]

\* the page sizes of a run: negative, all at once, the default (which divides
\* the nonce but not the response), one that divides neither, and one page
\* for everything
PageSizes == {-1, 0, 128, 200, 1040}

IdVerifications == {"skip", "warn", "strict"}
CaFiles == {"missing", "jedi.pub", "other.pub", "garbage"}

\* os.urandom(0x100): one of the nonces
NonceSeeds == {0, 1}
urandom(size, seed) == [i \in 1..size |-> (i * i + 7 * i + seed) % 256]

\* the device the token holds: its identity (serial, n, e), the signature of
\* a CA over the identity, and its signature over the nonce
TokenDevices ==
  { [n |-> 35, e |-> 11, signer |-> JEDI_CA, signs |-> TRUE],
    [n |-> 35, e |-> 11, signer |-> JEDI_CA, signs |-> FALSE],
    [n |-> 35, e |-> 11, signer |-> OTHER_CA, signs |-> TRUE],
    [n |-> 34, e |-> 11, signer |-> JEDI_CA, signs |-> TRUE] }

\* the DS4Response of a device to a nonce
device_response(dev, nonce_) ==
  LET id == identity_bytes(ExampleSerial, dev.n, dev.e)
      digest == SHA256(nonce_)
  IN  pss_sign(rsa_key(dev.n, dev.e), IF dev.signs THEN digest ELSE digest + 1)
        \o id \o pss_sign(dev.signer, SHA256(id))

\* n bytes of the token's response from offset off on (the response repeats
\* when the token is asked for more than it has)
token_bytes(rec, off, n) ==
  [i \in 1..n |-> rec[((off + i - 1) % Len(rec)) + 1]]

test_auth_main ==
  /\ pc = "main"
  /\ \E idv \in IdVerifications, cafile \in CaFiles, page_size \in PageSizes :
       LET loaded == IF idv # "skip" THEN load_key_and_check(cafile)
                     ELSE [exc |-> "none", key |-> NoKey,
                           fingerprint_match |-> FALSE, has_private |-> FALSE,
                           out |-> <<>>]
       IN  /\ args' = [action |-> "test-auth", aid |-> AID,
                       id_verification |-> idv, jedi_ca_pubkey |-> cafile,
                       page_size |-> page_size]
           /\ exc' = loaded.exc
           /\ IF loaded.exc # "none"
                THEN pc' = "done" /\ UNCHANGED <<ca, id_verification, out>>
                ELSE /\ pc' = "connect"
                     /\ ca' = loaded.key
                     /\ id_verification' = IF loaded.key = NoKey THEN "skip" ELSE idv
                     /\ out' = out \o loaded.out \o
                          (IF loaded.key # NoKey /\ ~loaded.fingerprint_match
                             THEN <<printed("Jedi CA is not official.", <<>>)>>
                             ELSE <<>>)
  /\ UNCHANGED <<codecVars, connVars, sent, recv, keyVars, step, nonce,
                 nonce_io, page, chunks, response_obj, cuk_pub, hop1, hop2,
                 files, exportVars, tokResp, faults>>

\* line 403 to 416: the auth handler is reset and the nonce drawn
test_auth_reset ==
  /\ pc = "with" /\ args.action = "test-auth"
  /\ \E sw \in TokenStatus, seed \in NonceSeeds :
       /\ transmit(Cmd(ISCCLA_auth, ISCAuthINS_reset, 0, 0, <<>>, 0), <<>>, sw, FALSE)
       /\ IF check_error(sw[1], sw[2])
            THEN /\ exc' = "SWException" /\ pc' = "done" /\ disconnectable(TRUE)
                 /\ nonce' = nonce
                 /\ out' = Append(out, printed("Resetting auth handler...", <<>>))
            ELSE /\ exc' = exc /\ pc' = "send_nonce" /\ UNCHANGED connVars
                 /\ nonce' = urandom(NonceSize, seed)
                 /\ out' = out \o <<printed("Resetting auth handler...", <<>>),
                                    printed("Using nonce", nonce'),
                                    printed("Sending nonce...", <<>>)>>
  /\ nonce_io' = 0 /\ page' = 0
  /\ UNCHANGED <<codecVars, args, keyVars, step, ca, id_verification, chunks,
                 response_obj, cuk_pub, hop1, hop2, files,
                 exportVars, tokResp>>

\* reads one byte less than the page size
read_count_short(pos, total, size) ==
  IF size < 0 THEN total - pos ELSE Min(Max(size - 1, 1), total - pos)

\* nonce_io.read(size): the count of bytes read at position pos of total
read_count(pos, total, size) ==
  IF size < 0 THEN total - pos ELSE Min(size, total - pos)

\* the loop of line 418 left after its first round
nonce_remains_never(pos, total) == FALSE

\* line 418: the loop goes on while the nonce has not been read to its end
nonce_remains(pos, total) == pos # total

\* one round of the loop of line 418: a page of the nonce goes out
test_auth_send_nonce ==
  /\ pc = "send_nonce"
  /\ page < MaxPage
  /\ LET all_at_once == args.page_size = 0
         count == IF all_at_once THEN Len(nonce) - nonce_io
                  ELSE read_count(nonce_io, Len(nonce), args.page_size)
         chunk == SubSeq(nonce, nonce_io + 1, nonce_io + count)
     IN  /\ nonce_io' = nonce_io + count
         /\ \E sw \in TokenStatus :
              /\ transmit(Cmd(ISCCLA_auth, ISCAuthINS_set_challenge,
                              args.page_size, page, chunk, 0), <<>>, sw, FALSE)
              /\ IF check_error(sw[1], sw[2])
                   THEN /\ exc' = "SWException" /\ pc' = "done"
                        /\ disconnectable(TRUE)
                        /\ page' = page /\ out' = out
                   ELSE /\ exc' = exc /\ UNCHANGED connVars
                        /\ IF nonce_remains(nonce_io', Len(nonce))
                             THEN pc' = pc /\ page' = page + 1 /\ out' = out
                             ELSE /\ pc' = "recv_response" /\ page' = 0
                                  /\ out' = Append(out, printed("Receiving response...", <<>>))
  /\ chunks' = IF pc' = "recv_response" THEN <<>> ELSE chunks
  /\ UNCHANGED <<codecVars, args, keyVars, step, ca, id_verification, nonce,
                 response_obj, cuk_pub, hop1, hop2, files,
                 exportVars, tokResp>>

\* a request for a whole page whatever is still missing
response_le_whole_page(all_at_once, got, page_size) ==
  IF all_at_once THEN sizeof_DS4Response ELSE page_size

\* line 430 to 433: the count of bytes to ask for
response_le(all_at_once, got, page_size) ==
  IF all_at_once THEN sizeof_DS4Response
  ELSE Min(sizeof_DS4Response - got, page_size)

\* one round of the loop of line 429: a page of the response is asked for;
\* its bytes are appended before the status is checked
test_auth_recv_response ==
  /\ pc = "recv_response"
  /\ page < MaxPage
  /\ LET all_at_once == args.page_size = 0
         le == response_le(all_at_once, Len(chunks), args.page_size)
         asked == Max(le, 0)
         other_lengths == IF faults < MaxFaults /\ page <= MaxFaultPage
                            THEN {asked + 1} \cup ({asked - 1} \cap Nat)
                            ELSE {}
         replies == {<<SW_OK, n>> : n \in {asked} \cup other_lengths} \cup
                    {<<sw, asked>> : sw \in TokenStatus \ {SW_OK}}
     IN  \E rec \in (IF tokResp = <<>>
                       THEN {device_response(d, nonce) : d \in TokenDevices}
                       ELSE {tokResp}) :
           \E r \in replies :
             \E resp \in {token_bytes(rec, Len(chunks), r[2])} :
               /\ tokResp' = rec
               /\ transmit(Cmd(ISCCLA_auth, ISCAuthINS_get_response,
                               args.page_size, page, <<>>, le),
                           resp, r[1], r[1] = SW_OK /\ r[2] # asked)
               /\ chunks' = chunks \o resp
               /\ IF check_error(r[1][1], r[1][2])
                    THEN /\ exc' = "SWException" /\ pc' = "done"
                         /\ disconnectable(TRUE) /\ page' = page
                    ELSE /\ exc' = exc /\ UNCHANGED connVars /\ page' = page + 1
                         /\ pc' = IF Len(chunks') < sizeof_DS4Response
                                    THEN pc ELSE "decode"
  /\ UNCHANGED <<codecVars, args, out, keyVars, step, ca, id_verification,
                 nonce, nonce_io, response_obj, cuk_pub, hop1, hop2, files,
                 exportVars>>

\* hop 1 is evaluated in every mode
verifies_id_always(idv) == TRUE

\* line 453: hop 1 is evaluated unless the mode is skip
verifies_id(idv) == idv # "skip"

\* a failing hop 1 never ends the operation
strict_returns_never(ok, idv) == FALSE

\* a failing hop 1 ends the operation in warn mode as well
strict_returns_on_warn(ok, idv) == ~ok /\ idv \in {"strict", "warn"}

\* line 457 to 460: a failing hop 1 ends the operation in strict mode
strict_returns(ok, idv) == ~ok /\ idv = "strict"

\* a check that refuses only a response that is too short
unexpected_response_size_short(size) == size < sizeof_DS4Response

\* line 440: the accumulated bytes are not exactly one DS4Response
unexpected_response_size(size) == size # sizeof_DS4Response

\* line 438 to 451: the length check, the record, the device key
test_auth_decode ==
  /\ pc = "decode"
  /\ LET full_response == chunks
         ds4id == signed_identity_of(resp_signed_identity(full_response))
     IN  IF unexpected_response_size(Len(full_response))
           THEN /\ exc' = "ValueError: Unexpected response size"
                /\ pc' = "done" /\ disconnectable(TRUE)
                /\ UNCHANGED <<response_obj, cuk_pub, out>>
           ELSE \E k \in {ds4id_to_key(ds4id)} :
                  /\ response_obj' = full_response
                  /\ IF k.exc # "none"
                       THEN /\ exc' = k.exc /\ pc' = "done"
                            /\ disconnectable(TRUE)
                            /\ UNCHANGED <<cuk_pub, out>>
                       ELSE /\ exc' = exc /\ UNCHANGED connVars
                            /\ cuk_pub' = k.key
                            /\ out' = out \o
                                 <<printed("serial =", id_serial(ds4id)),
                                   printed("n =", id_modulus(ds4id)),
                                   printed("e =", id_exponent(ds4id)),
                                   printed("fp =", <<SHA256(<<k.key>>)>>),
                                   printed("Begin verification.", <<>>)>>
                            /\ pc' = IF verifies_id(id_verification)
                                       THEN "verify_id" ELSE "verify_response"
  /\ UNCHANGED <<codecVars, args, sent, recv, keyVars, step, ca,
                 id_verification, nonce, nonce_io, page, chunks, hop1, hop2,
                 files, exportVars, tokResp, faults>>

\* line 453 to 462: hop 1, the CA's signature over the identity
test_auth_verify_id ==
  /\ pc = "verify_id"
  /\ LET signed == resp_signed_identity(response_obj)
         sha_id == SHA256(signed_identity_of(signed))
         ok == pss_verify(ca, sha_id, signed_sig_identity(signed))
     IN  /\ hop1' = IF ok THEN "OK" ELSE "NG"
         /\ out' = Append(out, printed(IF ok THEN "ID OK." ELSE "ID NG.", <<>>))
         /\ IF strict_returns(ok, id_verification)
              THEN pc' = "done" /\ disconnectable(FALSE)
              ELSE pc' = "verify_response" /\ UNCHANGED connVars
  /\ UNCHANGED <<codecVars, args, exc, sent, recv, keyVars, step, ca,
                 id_verification, nonce, nonce_io, page, chunks, response_obj,
                 cuk_pub, hop2, files, exportVars, tokResp, faults>>

\* line 463 to 471: hop 2, the device's signature over the nonce
test_auth_verify_response ==
  /\ pc = "verify_response"
  /\ LET sig == resp_sig(response_obj)
         ok == pss_verify(cuk_pub, SHA256(nonce), sig)
     IN  /\ hop2' = IF ok THEN "OK" ELSE "NG"
         /\ out' = Append(out, printed(IF ok THEN "Response OK."
                                       ELSE "Response NG.", <<>>))
  /\ pc' = "done" /\ disconnectable(FALSE)
  /\ UNCHANGED <<codecVars, args, exc, sent, recv, keyVars, step, ca,
                 id_verification, nonce, nonce_io, page, chunks, response_obj,
                 cuk_pub, hop1, files, exportVars, tokResp, faults>>

do_test_auth ==
  \/ test_auth_main
  \/ test_auth_reset
  \/ test_auth_send_nonce
  \/ test_auth_recv_response
  \/ test_auth_decode
  \/ test_auth_verify_id
  \/ test_auth_verify_response

(***************************************************************************)
(* _do_export_ds4id, do_export_ds4id, do_sign_ds4id                        *)
(***************************************************************************)
\* field_types: the type and the size of each exported field
field_types ==
  <<<<ISCImportType_serial, SerialSize>>,
    <<ISCImportType_pub_n, ModulusSize>>,
    <<ISCImportType_pub_e, ExponentSize>>,
    <<ISCImportType_sig_id, SigSize>>>>

\* where the token keeps each field of its signed identity
field_offset(k) ==
  IF k = 1 THEN 0
  ELSE IF k = 2 THEN SerialSize
  ELSE IF k = 3 THEN SerialSize + ModulusSize
  ELSE sizeof_DS4IdentityBlock

\* the signed identity a token holds
TokenIdentities ==
  { identity_bytes(ExampleSerial, dev.n, dev.e)
      \o pss_sign(dev.signer, SHA256(identity_bytes(ExampleSerial, dev.n, dev.e)))
    : dev \in {d \in TokenDevices : d.signs} }

\* the exchanges of _do_export_ds4id: the reset, then one export per field;
\* after the last field the length check and the memmove.  after_(record)
\* is what the caller does with the record.
export_reset(lines) ==
  /\ step = 0
  /\ run_commands(<<config_reset>>, TRUE)
  /\ out' = out \o lines
  /\ UNCHANGED <<codecVars, args, keyVars, authVars, files, tokResp, fields,
                 ds4id_signed>>

export_field(sign) ==
  /\ pc = "with" /\ step \in 1..Len(field_types)
  /\ LET type_ == field_types[step][1]
         le == field_types[step][2]
         other_lengths == IF faults < MaxFieldFaults /\ step <= MaxFaultField
                            THEN {le + 1, le - 1} ELSE {}
         replies == {<<SW_OK, n>> : n \in {le} \cup other_lengths} \cup
                    {<<sw, le>> : sw \in TokenStatus \ {SW_OK}}
     IN  \E rec \in (IF tokResp = <<>> THEN TokenIdentities ELSE {tokResp}) :
           \E r \in replies :
             \E resp \in {token_bytes(rec, field_offset(step), r[2])} :
               /\ tokResp' = rec
               /\ transmit(Cmd(ISCCLA_config, ISCConfigINS_export, type_, 0,
                               <<>>, le),
                           resp, r[1], r[1] = SW_OK /\ r[2] # le)
               /\ fields' = fields \o resp
               /\ step' = step + 1
               /\ IF check_error(r[1][1], r[1][2])
                    THEN /\ exc' = "SWException" /\ pc' = "done"
                         /\ disconnectable(TRUE)
                         /\ UNCHANGED <<ds4id_signed, files>>
                    ELSE IF step < Len(field_types)
                      THEN /\ exc' = exc /\ pc' = pc
                           /\ UNCHANGED <<connVars, ds4id_signed, files>>
                    ELSE IF Len(fields') # sizeof_DS4SignedIdentityBlock
                      THEN /\ exc' = "ValueError: Unexpected length for DS4ID block."
                           /\ pc' = "done" /\ disconnectable(TRUE)
                           /\ UNCHANGED <<ds4id_signed, files>>
                    ELSE /\ exc' = exc
                         /\ ds4id_signed' = fields'
                         /\ IF sign
                              THEN pc' = pc /\ UNCHANGED <<connVars, files>>
                              ELSE /\ pc' = "done" /\ disconnectable(FALSE)
                                   /\ files' =
                                        <<[name |-> "ds4id_file",
                                           data |-> signed_identity_of(fields')],
                                          [name |-> "ds4id_file.sig",
                                           data |-> signed_sig_identity(fields')]>>
  /\ UNCHANGED <<codecVars, args, out, keyVars, authVars>>

do_export_ds4id ==
  \/ main("export-ds4id", {AID}, "connect")
  \/ args.action = "export-ds4id" /\ export_reset(<<>>)
  \/ args.action = "export-ds4id" /\ export_field(FALSE)

do_sign_ds4id ==
  \/ /\ pc = "main"
     /\ \E keyfile \in KeyFiles :
          \E loaded \in {load_key_and_check(keyfile)} :
            /\ args' = [action |-> "sign-ds4id", aid |-> AID,
                        jedi_ca_privkey |-> keyfile]
            /\ out' = out \o loaded.out
            /\ exc' = IF loaded.exc # "none" THEN loaded.exc
                      ELSE IF loaded.key = NoKey THEN "AttributeError"
                      ELSE IF ~loaded.has_private
                        THEN "TypeError: Jedi CA private key not present in the key file."
                      ELSE exc
            /\ pc' = IF exc' = "none" THEN "connect" ELSE "done"
            /\ ca' = IF exc' = "none" THEN loaded.key ELSE ca
     /\ UNCHANGED <<codecVars, connVars, sent, recv, keyVars, step,
                    id_verification, nonce, nonce_io, page, chunks,
                    response_obj, cuk_pub, hop1, hop2, files, fields,
                    ds4id_signed, tokResp, faults>>
  \/ /\ args.action = "sign-ds4id"
     /\ export_reset(<<printed("Exporting DS4ID from card...", <<>>)>>)
  \/ args.action = "sign-ds4id" /\ export_field(TRUE)
  \/ /\ args.action = "sign-ds4id" /\ pc = "with" /\ step = Len(field_types) + 1
     /\ LET sha_id == SHA256(signed_identity_of(ds4id_signed))
            sig == pss_sign(ca, sha_id)
        IN  \E sw \in TokenStatus :
              /\ transmit(import_(ISCImportType_sig_id, sig), <<>>, sw, FALSE)
              /\ exc' = IF check_error(sw[1], sw[2]) THEN "SWException" ELSE exc
              /\ disconnectable(check_error(sw[1], sw[2]))
     /\ out' = Append(out, printed("Importing new signature...", <<>>))
     /\ pc' = "done" /\ step' = step + 1
     /\ UNCHANGED <<codecVars, args, keyVars, authVars, files, fields,
                    ds4id_signed, tokResp>>

(***************************************************************************)
(* Spec: one run of the program, any operation                             *)
(***************************************************************************)
Init == pc = "main" /\ Untouched

Next ==
  \/ do_list_readers
  \/ confirm
  \/ do_connect_and_select
  \/ select
  \/ do_applet_info
  \/ do_is_ready
  \/ do_test_auth
  \/ do_import_ds4key
  \/ do_export_ds4id
  \/ do_set_serial
  \/ do_sign_ds4id
  \/ do_gen_key
  \/ do_enter_stealth_mode
  \/ do_nuke

Spec == Init /\ [][Next]_vars

(***************************************************************************)
(* SpecKey: _load_ds4key_and_check applied once to a bounded key block     *)
(***************************************************************************)
LoadKey == do_import_ds4key_load({ file_of(k) : k \in KeyNumbersWide })

NextKey == LoadKey

SpecKey == Init /\ [][NextKey]_vars

\* the numbers a key file holds
numbers_of(file) ==
  [n |-> bytes_to_long(id_modulus(key_identity(file))),
   e |-> bytes_to_long(id_exponent(key_identity(file))),
   p |-> bytes_to_long(key_p(file)),
   q |-> bytes_to_long(key_q(file)),
   dp1 |-> bytes_to_long(key_dp1(file)),
   dq1 |-> bytes_to_long(key_dq1(file)),
   pq |-> bytes_to_long(key_pq(file))]

\* a block derived from a valid RSA key: n = p q, d = e^-1 mod (p-1)(q-1),
\* dp1 = d mod (p-1), dq1 = d mod (q-1), pq = q^-1 mod p
ValidBlock(k) ==
  /\ is_rsa_key(k.p, k.q, k.e)
  /\ k.n = k.p * k.q
  /\ \E d \in 1..((k.p - 1) * (k.q - 1) - 1) :
       /\ (k.e * d) % ((k.p - 1) * (k.q - 1)) = 1
       /\ k.dp1 = d % (k.p - 1)
       /\ k.dq1 = d % (k.q - 1)
  /\ k.pq \in 0..(k.p - 1) /\ (k.pq * k.q) % k.p = 1

CrtFieldNames == {"p", "q", "dp1", "dq1", "pq"}

\* the block differs from a valid block in exactly one of p, q, dp1, dq1, pq
OneValueOff(k) ==
  \E f \in CrtFieldNames, v \in 0..(MaxKeyInt * MaxKeyInt) :
    v # k[f] /\ ValidBlock([k EXCEPT ![f] = v])

Reported(text) == \E i \in 1..Len(out) : out[i].text = text

\* the positions in sent of the commands of one class and instruction
CommandsAt(cla, ins) ==
  {i \in 1..Len(sent) : sent[i][1] = cla /\ sent[i][2] = ins}

Succeeded(i) == recv[i].sw1 = 144 /\ recv[i].sw2 = 0

First(S) == CHOOSE i \in S : \A j \in S : i <= j

CeilDiv(a, b) == (a + b - 1) \div b

\* the payloads of the commands sent at positions lo..hi, joined
RECURSIVE PayloadsJoined(_, _)
PayloadsJoined(lo, hi) ==
  IF lo > hi THEN <<>>
  ELSE PayloadsJoined(lo, hi - 1) \o ParseCommand(sent[hi]).payload

\* the response bytes received at positions lo..hi, joined
RECURSIVE ResponsesJoined(_, _)
ResponsesJoined(lo, hi) ==
  IF lo > hi THEN <<>>
  ELSE ResponsesJoined(lo, hi - 1) \o recv[hi].resp

\* C1: in test-auth run with strictness strict, when hop 1 fails the
\* operation ends there: hop 2 is never evaluated and no hop-2 result is
\* reported.
C1_StrictAbortsBeforeHop2 ==
  (args.action = "test-auth" /\ args.id_verification = "strict" /\ hop1 = "NG")
  => /\ pc = "done" /\ exc = "none"
     /\ hop2 = "none"
     /\ Reported("ID NG.")
     /\ ~Reported("Response OK.") /\ ~Reported("Response NG.")

\* a strict run whose response was received in full and failed hop 1
C1_Witness ==
  /\ args.action = "test-auth" /\ args.id_verification = "strict"
  /\ ca = JEDI_CA /\ response_obj # <<>> /\ cuk_pub # NoKey
  /\ hop1 = "NG" /\ pc = "done" /\ conn = "disconnected"

\* the accumulated bytes passed the length check and were copied to the record
FullResponseReceived == response_obj # <<>>

\* the identity of the response holds numbers RSA.construct accepts
DeviceKeyConstructible ==
  LET ds4id == signed_identity_of(resp_signed_identity(response_obj))
  IN  rsa_public_consistent(bytes_to_long(id_modulus(ds4id)),
                            bytes_to_long(id_exponent(ds4id)))

Hop2Reported ==
  /\ hop2 \in {"OK", "NG"} /\ exc = "none"
  /\ Reported("Response OK.") <=> hop2 = "OK"
  /\ Reported("Response NG.") <=> hop2 = "NG"

Hop1NotEvaluated ==
  /\ hop1 = "none" /\ ca = NoKey
  /\ ~Reported("ID OK.") /\ ~Reported("ID NG.")

\* C2 as stated: in test-auth run with strictness skip, hop 1 is never
\* evaluated and the issuer key is not loaded, and once the full response has
\* been received hop 2 is evaluated and its result reported without an error.
C2_SkipAsStated ==
  (args.action = "test-auth" /\ args.id_verification = "skip")
  => /\ Hop1NotEvaluated
     /\ (pc = "done" /\ FullResponseReceived) => Hop2Reported

\* C2: in test-auth run with strictness skip, hop 1 is never evaluated and
\* the issuer key is not loaded, and once the full response has been received
\* and the modulus and exponent of its identity form a consistent RSA public
\* key, hop 2 is evaluated and its result reported without an error.
C2_SkipReportsHop2 ==
  (args.action = "test-auth" /\ args.id_verification = "skip")
  => /\ Hop1NotEvaluated
     /\ (pc = "done" /\ FullResponseReceived /\ DeviceKeyConstructible)
          => Hop2Reported

\* a skip run with the CA file in place that reported a failing hop 2
C2_Witness ==
  /\ args.action = "test-auth" /\ args.id_verification = "skip"
  /\ args.jedi_ca_pubkey = "jedi.pub"
  /\ pc = "done" /\ FullResponseReceived /\ hop2 = "NG"
  /\ Reported("Response NG.")

\* the CRT values of the block are the ones that belong to its p, q and e
CrtConsistent(k) ==
  /\ k.p > 1 /\ k.q > 1
  /\ \E d \in 0..((k.p - 1) * (k.q - 1) - 1) :
       /\ (k.e * d) % ((k.p - 1) * (k.q - 1)) = 1 % ((k.p - 1) * (k.q - 1))
       /\ k.dp1 = d % (k.p - 1)
       /\ k.dq1 = d % (k.q - 1)
  /\ \E u \in 0..(k.p - 1) : (u * k.q) % k.p = 1 % k.p /\ k.pq = u

\* the key files with numbers above 255, and those of them that pass the
\* comparison of line 261 by the arithmetic of lines 257-261
LargeKeyFiles == {f \in DS4KeyFiles : ~narrow(readinto(f).ds4key)}
LargeCrtPassed ==
  {f \in LargeKeyFiles : wide_crt_check(wide_numbers(readinto(f).ds4key)).exc = "none"}

\* the key block the file fills passes the comparison of line 261: by the
\* definition of the CRT values where its numbers are small, by the
\* arithmetic of the code where they are not
CrtCheckPassed(file) ==
  IF file \in LargeKeyFiles THEN file \in LargeCrtPassed
  ELSE CrtConsistent(numbers_of(readinto(file).ds4key))

\* C4: import-ds4key opens no connection and transmits no command unless
\* the key block passed the CRT consistency check; for a block that fails
\* the check the operation raises before any exchange.
C4_NoExchangeBeforeCrtCheck ==
  args.action = "import-ds4key" =>
    \E passed \in {CrtCheckPassed(ds4keyfile)} :
      /\ (conn # "none" \/ sent # <<>>) => passed
      /\ ~passed =>
           /\ pc = "done" /\ exc \notin {"none", "SWException"}
           /\ conn = "none" /\ sent = <<>> /\ recv = <<>>

\* a block whose dp1 alone is wrong, refused with nothing sent
C4_Witness ==
  /\ args.action = "import-ds4key" /\ pc = "done"
  /\ exc = "ValueError: Bad key block (CRT factors inconsistent with P and Q)"
  /\ conn = "none" /\ sent = <<>>
  /\ LET k == numbers_of(ds4keyfile)
     IN  \E v \in KeyInts : v # k.dp1 /\ CrtConsistent([k EXCEPT !.dp1 = v])

\* C5: once an exchange returns a status pair other than (0x90, 0x00) the
\* operation raises at once: the failed exchange is the last one of the
\* connection, and its response bytes are not decoded into a record, not
\* verified and not written to a file.
C5_FailingStatusRaises ==
  \A i \in 1..Len(recv) :
    ~Succeeded(i) =>
      /\ i = Len(recv) /\ Len(sent) = Len(recv)
      /\ pc = "done" /\ exc = "SWException"
      /\ i \in CommandsAt(ISCCLA_auth, ISCAuthINS_get_response) =>
           (response_obj = <<>> /\ hop1 = "none" /\ hop2 = "none")
      /\ i \in CommandsAt(ISCCLA_config, ISCConfigINS_export) =>
           (ds4id_signed = <<>> /\ files = <<>>)

\* the same for the status pairs the table of the checker lists: these do
\* end the operation at once
ListedStatusRaises ==
  \A i \in 1..Len(recv) :
    check_error(recv[i].sw1, recv[i].sw2) =>
      /\ i = Len(recv) /\ Len(sent) = Len(recv)
      /\ pc = "done" /\ exc = "SWException"
      /\ i \in CommandsAt(ISCCLA_auth, ISCAuthINS_get_response) =>
           (response_obj = <<>> /\ hop1 = "none" /\ hop2 = "none")
      /\ i \in CommandsAt(ISCCLA_config, ISCConfigINS_export) =>
           (ds4id_signed = <<>> /\ files = <<>>)

\* the connection is disconnected exactly once on every exit path but the
\* failing SELECT
DisconnectedOnceAfterSelect ==
  /\ disconnects <= 1
  /\ (pc = "done" /\ conn # "none"
        /\ ~(Len(recv) = 1 /\ check_error(recv[1].sw1, recv[1].sw2)))
       => (conn = "disconnected" /\ disconnects = 1)

\* C6: a connection that has been established is disconnected exactly once
\* before the operation ends, on every exit path.
C6_DisconnectedExactlyOnce ==
  /\ disconnects <= 1
  /\ (pc = "done" /\ conn # "none") => (conn = "disconnected" /\ disconnects = 1)

\* every set_challenge was answered with success and the whole nonce is out
NonceSent ==
  /\ args.action = "test-auth" /\ nonce # <<>> /\ nonce_io = Len(nonce)
  /\ \A i \in CommandsAt(ISCCLA_auth, ISCAuthINS_set_challenge) : Succeeded(i)

\* C9: with page size P >= 1 and every exchange succeeding, the S-byte nonce
\* goes out in exactly ceil(S/P) set_challenge commands, each with P payload
\* bytes except the last, which has the remainder, and the payloads joined
\* in send order are the nonce; with P = 0 it goes out in one set_challenge
\* command that carries all S bytes.
C9_OutboundPaging ==
  (NonceSent /\ args.page_size >= 0) =>
    LET P == args.page_size
        S == NonceSize
        at == CommandsAt(ISCCLA_auth, ISCAuthINS_set_challenge)
        count == IF P = 0 THEN 1 ELSE CeilDiv(S, P)
    IN  /\ Len(nonce) = S
        /\ at # {}
        /\ at = First(at)..(First(at) + count - 1)
        /\ \A k \in 1..count :
             Len(ParseCommand(sent[First(at) + k - 1]).payload) =
               IF P = 0 THEN S
               ELSE IF k < count THEN P ELSE S - (count - 1) * P
        /\ PayloadsJoined(First(at), First(at) + count - 1) = nonce

\* the nonce went out in two pages, the second one shorter
C9_Witness ==
  /\ NonceSent /\ args.page_size = 200
  /\ Cardinality(CommandsAt(ISCCLA_auth, ISCAuthINS_set_challenge)) = 2
  /\ pc = "recv_response"

\* every get_response was answered with success and with exactly the number
\* of bytes it asked for
ExactReplies ==
  \A i \in CommandsAt(ISCCLA_auth, ISCAuthINS_get_response) :
    Succeeded(i) /\ Len(recv[i].resp) = ParseCommand(sent[i]).le

\* C10: with page size P >= 1 and a token that returns exactly the number of
\* bytes asked for on every exchange, the T-byte response is fetched with
\* exactly ceil(T/P) get_response commands, each asking for min(P, bytes
\* still missing), and the accumulated bytes are the returned bytes in order;
\* with P = 0 one get_response command asks for all T bytes.
C10_InboundPaging ==
  (args.action = "test-auth" /\ args.page_size >= 0 /\ ExactReplies) =>
    LET P == args.page_size
        T == sizeof_DS4Response
        at == CommandsAt(ISCCLA_auth, ISCAuthINS_get_response)
        n == Cardinality(at)
        count == IF P = 0 THEN 1 ELSE CeilDiv(T, P)
    IN  at # {} =>
          /\ at = First(at)..(First(at) + n - 1)
          /\ n <= count
          /\ \A k \in 1..n :
               ParseCommand(sent[First(at) + k - 1]).le =
                 IF P = 0 THEN T ELSE Min(P, T - (k - 1) * P)
          /\ chunks = ResponsesJoined(First(at), First(at) + n - 1)
          /\ pc # "recv_response" => (n = count /\ Len(chunks) = T)

\* the response came in six pages, the last one shorter
C10_Witness ==
  /\ args.action = "test-auth" /\ args.page_size = 200 /\ ExactReplies
  /\ Cardinality(CommandsAt(ISCCLA_auth, ISCAuthINS_get_response)) = 6
  /\ pc = "decode" /\ Len(chunks) = sizeof_DS4Response

(***************************************************************************)
(* The oversized public exponent (lines 198-200, 251-255, 493-497)         *)
(***************************************************************************)
\* the key file has the record's size and an exponent above 0xffffffff
OversizedExponentFile ==
  /\ Len(ds4keyfile) = sizeof_DS4FullKeyBlock
  /\ exceeds_32bit(id_exponent(key_identity(ds4keyfile)))

\* the checks of lines 257-264 pass for the key file
OtherwiseConsistent ==
  wide_checks(wide_numbers(ds4keyfile), ds4keyfile, TRUE).exc = "none"

ImportSent == CommandsAt(ISCCLA_config, ISCConfigINS_import) # {}

\* C11: a key block whose public exponent exceeds 0xffffffff and that is
\* otherwise consistent is accepted iff the allow-oversized-exponent flag is
\* set: with the flag the load does not fail because of the exponent's size,
\* without the flag the key is rejected and none of its fields is sent.
C11_FlagAdmitsOversizedExponent ==
  (/\ args.action = "import-ds4key" /\ pc # "main"
   /\ OversizedExponentFile /\ OtherwiseConsistent)
    => IF args.allow_oversized_exponent
         THEN exc # "ValueError: Public exponent is oversized"
         ELSE exc # "none" /\ pc = "done" /\ ~ImportSent

\* the import commands sent so far that carry the public exponent
ExponentImports ==
  {i \in CommandsAt(ISCCLA_config, ISCConfigINS_import) :
     sent[i][3] \in {ISCImportType_pub_e, ISCImportType_pub_e_compat}}

\* C12: in import-ds4key the command after the modulus imports the exponent;
\* it has sub-type pub_e_compat and the last 4 bytes of the exponent field
\* whenever the value is <= 0xffffffff, and sub-type pub_e and the whole
\* 256-byte field only when the value exceeds 0xffffffff; the 4 bytes of the
\* compact form encode the complete exponent value.
C12_ExponentForm ==
  args.action = "import-ds4key" =>
    LET field == id_exponent(key_identity(ds4key))
    IN  /\ \A i \in CommandsAt(ISCCLA_config, ISCConfigINS_import) :
             (sent[i][3] = ISCImportType_pub_n /\ i < Len(sent))
               => i + 1 \in ExponentImports
        /\ \A i \in ExponentImports :
             LET cmd == ParseCommand(sent[i])
             IN  /\ ~exceeds_32bit(field) =>
                      /\ cmd.p1 = ISCImportType_pub_e_compat
                      /\ cmd.payload = SubSeq(field, ExponentSize - 3, ExponentSize)
                 /\ cmd.p1 = ISCImportType_pub_e =>
                      /\ cmd.payload = field /\ Len(cmd.payload) = ExponentSize
                      /\ exceeds_32bit(field)
                 /\ cmd.p1 = ISCImportType_pub_e_compat =>
                      /\ Len(cmd.payload) = 4
                      /\ big_from_bytes(cmd.payload) = big_from_bytes(field)

\* an exponent with four significant bytes has been imported in compact form
\* and the import has run to its end
C12_Witness ==
  /\ args.action = "import-ds4key" /\ ds4keyfile = FourByteKeyFile
  /\ pc = "done" /\ exc = "none"
  /\ \E i \in ExponentImports :
       /\ sent[i][3] = ISCImportType_pub_e_compat
       /\ ParseCommand(sent[i]).payload = <<128, 0, 0, 11>>
       /\ Succeeded(i)

\* the whole field is sent for the exponent above 0xffffffff
FullExponentImported ==
  /\ args.action = "import-ds4key" /\ ds4keyfile = OversizedKeyFile
  /\ \E i \in ExponentImports :
       sent[i][3] = ISCImportType_pub_e /\ Succeeded(i)

(***************************************************************************)
(* The size of the key file (lines 234-240)                                *)
(***************************************************************************)
\* the load raised and the run ended without importing anything
RejectedUnimported == exc # "none" /\ pc = "done" /\ ~ImportSent

\* C13: loading a Full Key Record succeeds only when the file has exactly
\* the record's size of 1424 bytes; a shorter or a longer file is rejected
\* with an error and nothing is imported.
C13_ExactSizeOnly ==
  (/\ args.action = "import-ds4key" /\ pc # "main"
   /\ Len(ds4keyfile) # sizeof_DS4FullKeyBlock)
    => RejectedUnimported

\* what the code does ensure: a file shorter than the record is rejected
ShortFileRejected ==
  (/\ args.action = "import-ds4key" /\ pc # "main"
   /\ Len(ds4keyfile) < sizeof_DS4FullKeyBlock)
    => /\ RejectedUnimported
       /\ exc = "ValueError: DS4Key too small."

(***************************************************************************)
(* The strictness of test-auth (lines 390-400, 453-471)                    *)
(***************************************************************************)
\* C14: when the caller selects strictness warn or strict, the strictness in
\* force is never weakened to skip, every test-auth run that receives a full
\* response (with a device key that can be constructed) evaluates hop 1, and
\* under strict hop 2 is evaluated only after hop 1 has succeeded.
C14_StrictnessKept ==
  (args.action = "test-auth" /\ args.id_verification \in {"warn", "strict"})
    => /\ id_verification # "skip"
       /\ (/\ FullResponseReceived /\ DeviceKeyConstructible
           /\ pc \in {"verify_response", "done"})
            => hop1 \in {"OK", "NG"}
       /\ (args.id_verification = "strict" /\ hop2 # "none") => hop1 = "OK"

\* what the code does ensure: the strictness is kept, and hop 1 evaluated,
\* whenever the CA key file exists
StrictnessKeptWithCA ==
  (/\ args.action = "test-auth" /\ args.id_verification \in {"warn", "strict"}
   /\ args.jedi_ca_pubkey # "missing")
    => /\ id_verification \in {"none", args.id_verification}
       /\ (/\ FullResponseReceived /\ DeviceKeyConstructible
           /\ pc \in {"verify_response", "done"})
            => hop1 \in {"OK", "NG"}
       /\ (args.id_verification = "strict" /\ hop2 # "none") => hop1 = "OK"

\* a run under strict that has reported hop 2 without evaluating hop 1
StrictRunSkipsHop1 ==
  /\ args.action = "test-auth" /\ args.id_verification = "strict"
  /\ pc = "done" /\ hop1 = "none" /\ hop2 = "OK"

\* hop 2 as a function of the device signature, the public key of the
\* identity and the nonce alone
Hop2Outcome ==
  LET ds4id == signed_identity_of(resp_signed_identity(response_obj))
  IN  IF pss_verify(ds4id_to_key(ds4id).key, SHA256(nonce), resp_sig(response_obj))
        THEN "OK" ELSE "NG"

\* C15: in test-auth with strictness warn in force, hop 2 is evaluated after
\* hop 1 whether hop 1 passed or failed; the hop-2 outcome is determined by
\* the device signature, the identity's public key and the nonce alone, so it
\* is the same for either hop-1 outcome; a hop-2 failure is reported and
\* raises no error.
C15_WarnHopsIndependent ==
  (args.action = "test-auth" /\ id_verification = "warn")
    => /\ hop2 # "none" => hop1 \in {"OK", "NG"}
       /\ (hop1 \in {"OK", "NG"} /\ pc = "done")
            => /\ hop2 \in {"OK", "NG"} /\ hop2 = Hop2Outcome
               /\ exc = "none"
               /\ Reported("Response OK.") <=> hop2 = "OK"
               /\ Reported("Response NG.") <=> hop2 = "NG"
       /\ (hop1 \in {"OK", "NG"} /\ pc # "done")
            => pc = "verify_response" /\ hop2 = "none" /\ exc = "none"

\* hop 1 has failed, and hop 2 was evaluated all the same and has passed
C15_Witness ==
  /\ args.action = "test-auth" /\ id_verification = "warn"
  /\ pc = "done" /\ hop1 = "NG" /\ hop2 = "OK"
  /\ Reported("ID NG.") /\ Reported("Response OK.")

\* both hops have failed under warn, and the run ended without an error
WarnBothHopsFail ==
  /\ args.action = "test-auth" /\ id_verification = "warn"
  /\ pc = "done" /\ hop1 = "NG" /\ hop2 = "NG" /\ exc = "none"

(***************************************************************************)
(* The parameters of the paging commands (lines 89-94, 416-437)            *)
(***************************************************************************)
\* the k-th command (from 0) of each transfer so far carries the page size
\* as parameter 1 and k as parameter 2
PagingParameters ==
  \A ins \in {ISCAuthINS_set_challenge, ISCAuthINS_get_response} :
    LET at == CommandsAt(ISCCLA_auth, ins)
    IN  \A i \in at :
          /\ sent[i][3] = args.page_size
          /\ sent[i][4] = i - First(at)

\* C16: in both paging loops of test-auth the k-th command of a transfer
\* reaches the token with parameter 1 equal to the page size and parameter 2
\* equal to k, for every page size the command line accepts.
C16_PagingParametersAnyPageSize ==
  args.action = "test-auth" => PagingParameters

\* what the code does ensure: the same for the page sizes that fit a byte
PagingParametersOfByteSizes ==
  (args.action = "test-auth" /\ args.page_size \in 0..255) => PagingParameters

\* a page of the nonce has been sent with page size 1040: parameter 1 is 16
PageSizeTruncated ==
  /\ args.action = "test-auth" /\ args.page_size = 1040
  /\ \E i \in CommandsAt(ISCCLA_auth, ISCAuthINS_set_challenge) :
       sent[i][3] = 16 /\ Succeeded(i)

(***************************************************************************)
(* Termination of test-auth (lines 418-425, 429-437).  The program is one  *)
(* thread that takes its next step whenever it has one: FairSpec.  The     *)
(* model follows a paging loop for MaxPage rounds.                         *)
(***************************************************************************)
FairSpec == Spec /\ WF_vars(Next)

NonNegativePageSizeTerminates ==
  [](args.action = "test-auth" /\ args.page_size >= 0 => <>(pc = "done"))

\* the loop of line 429 with a negative page size and a token that returns
\* exactly what is asked for: nothing is asked for and nothing accumulates,
\* so the loop's condition stays as it was before the round
NegativePageSizeNeverAdvances ==
  (/\ args.action = "test-auth" /\ args.page_size < 0 /\ ExactReplies
   /\ pc = "recv_response")
    => /\ chunks = <<>>
       /\ \A i \in CommandsAt(ISCCLA_auth, ISCAuthINS_get_response) :
            ParseCommand(sent[i]).le = 0 /\ recv[i].resp = <<>>

\* MaxPage rounds of that loop have been made without a byte received
RoundsWithoutProgress ==
  /\ args.action = "test-auth" /\ args.page_size < 0 /\ ExactReplies
  /\ pc = "recv_response" /\ page = MaxPage /\ chunks = <<>>
  /\ Cardinality(CommandsAt(ISCCLA_auth, ISCAuthINS_get_response)) = MaxPage

(***************************************************************************)
(* The order of the commands on a connection (lines 279-281, 303-310,      *)
(* 322-330, 361-387, 481-488, 526-559)                                     *)
(***************************************************************************)
\* the positions in sent of the administrative commands
AdminCommands ==
  CommandsAt(ISCCLA_config, ISCConfigINS_gen_keys)
    \cup CommandsAt(ISCCLA_config, ISCConfigINS_enter_stealth_mode)
    \cup CommandsAt(ISCCLA_config, ISCConfigINS_nuke)

\* command i is a reset of the class, answered with success
ResetSucceededAt(cla, ins, i) ==
  i \in CommandsAt(cla, ins) /\ Succeeded(i)

\* C18: each administrative command (gen_keys, enter_stealth_mode, nuke) is
\* transmitted only directly after a configuration-class reset command has
\* succeeded on the same connection, and carries no payload and no response
\* length.
C18_AdminAfterReset ==
  \A i \in AdminCommands :
    /\ i > 1 /\ ResetSucceededAt(ISCCLA_config, ISCConfigINS_reset, i - 1)
    /\ Len(sent[i]) = 4

\* what the code does ensure: every administrative command is a bare header,
\* and gen_keys and enter_stealth_mode directly follow a configuration reset
\* that raised no error
AdminBareAndResetUnlessNuke ==
  \A i \in AdminCommands :
    /\ Len(sent[i]) = 4
    /\ sent[i][2] # ISCConfigINS_nuke =>
         /\ i - 1 \in CommandsAt(ISCCLA_config, ISCConfigINS_reset)
         /\ ~check_error(recv[i - 1].sw1, recv[i - 1].sw2)

\* nuke has been sent, and answered with success, on a connection on which
\* no reset was sent
NukeWithoutReset ==
  /\ args.action = "nuke"
  /\ CommandsAt(ISCCLA_config, ISCConfigINS_reset) = {}
  /\ \E i \in CommandsAt(ISCCLA_config, ISCConfigINS_nuke) :
       Succeeded(i) /\ Succeeded(i - 1)

\* a reset of the class was sent before command i and answered with success
ResetSucceededBefore(cla, ins, i) ==
  \E j \in 1..(i - 1) : ResetSucceededAt(cla, ins, j)

\* C19: every import, export, set_challenge and get_response command is
\* transmitted only after a reset command of its own class has succeeded
\* earlier on the same connection: a configuration reset before any import
\* or export, an authentication reset before any set_challenge or
\* get_response.
C19_ResetBeforeClassCommands ==
  /\ \A i \in CommandsAt(ISCCLA_config, ISCConfigINS_import)
               \cup CommandsAt(ISCCLA_config, ISCConfigINS_export) :
       ResetSucceededBefore(ISCCLA_config, ISCConfigINS_reset, i)
  /\ \A i \in CommandsAt(ISCCLA_auth, ISCAuthINS_set_challenge)
               \cup CommandsAt(ISCCLA_auth, ISCAuthINS_get_response) :
       ResetSucceededBefore(ISCCLA_auth, ISCAuthINS_reset, i)

\* what the code does ensure: in every operation but set-serial a reset of
\* the class that raised no error precedes each of these commands
ResetBeforeUnlessSetSerial ==
  args.action # "set-serial" =>
    /\ \A i \in CommandsAt(ISCCLA_config, ISCConfigINS_import)
                 \cup CommandsAt(ISCCLA_config, ISCConfigINS_export) :
         \E j \in CommandsAt(ISCCLA_config, ISCConfigINS_reset) :
           j < i /\ ~check_error(recv[j].sw1, recv[j].sw2)
    /\ \A i \in CommandsAt(ISCCLA_auth, ISCAuthINS_set_challenge)
                 \cup CommandsAt(ISCCLA_auth, ISCAuthINS_get_response) :
         \E j \in CommandsAt(ISCCLA_auth, ISCAuthINS_reset) :
           j < i /\ ~check_error(recv[j].sw1, recv[j].sw2)

\* set-serial has imported the serial number, with success, on a connection
\* on which no reset was sent
SerialImportedWithoutReset ==
  /\ args.action = "set-serial"
  /\ CommandsAt(ISCCLA_config, ISCConfigINS_reset) = {}
  /\ \E i \in CommandsAt(ISCCLA_config, ISCConfigINS_import) :
       sent[i][3] = ISCImportType_serial /\ Succeeded(i) /\ Succeeded(i - 1)

\* the first command of the connection is the SELECT of the configured
\* application identifier
SelectIsFirst ==
  ParseCommand(sent[1]) =
    [cla |-> ISOCLA, ins |-> ISOINS_SELECT, p1 |-> ISOP1_SELECT_BY_DF_NAME,
     p2 |-> ISOP2_FIRST_RECORD, payload |-> args.aid, le |-> 0]

\* C20: in every operation the first command transmitted on a newly
\* established connection is the application SELECT carrying the configured
\* application identifier, and no other command is transmitted on that
\* connection unless that SELECT returned success.
C20_SelectFirstAndSucceeded ==
  sent # <<>> =>
    /\ SelectIsFirst
    /\ Len(sent) > 1 => Succeeded(1)

\* what the code does ensure: the SELECT is first, and nothing follows a
\* SELECT whose status the checker of line 28 raised for
SelectFirstAndNotRaised ==
  sent # <<>> =>
    /\ SelectIsFirst
    /\ \A i \in 2..Len(sent) : sent[i][2] # ISOINS_SELECT \/ sent[i][1] # ISOCLA
    /\ Len(sent) > 1 => ~check_error(recv[1].sw1, recv[1].sw2)
    /\ check_error(recv[1].sw1, recv[1].sw2) => pc = "done" /\ exc = "SWException"

\* a command has been sent after a SELECT that was answered 6C 10
CommandAfterFailedSelect ==
  /\ Len(sent) > 1 /\ recv[1].sw1 = SW_UNLISTED[1] /\ recv[1].sw2 = SW_UNLISTED[2]

(***************************************************************************)
(* The order of the exchanges of test-auth (lines 402-445)                 *)
(***************************************************************************)
Last(S) == CHOOSE i \in S : \A j \in S : j <= i

\* a hop of the verification has started
HopStarted ==
  pc \in {"verify_id", "verify_response"} \/ hop1 # "none" \/ hop2 # "none"

\* C21: in test-auth the commands after SELECT appear in the order: one
\* authentication reset, then all set_challenge pages, then all get_response
\* pages; no get_response is sent before the whole nonce has been sent, and
\* neither hop of verification starts before the full 1040-byte response has
\* been accumulated.
C21_TestAuthOrder ==
  args.action = "test-auth" =>
    LET resets == CommandsAt(ISCCLA_auth, ISCAuthINS_reset)
        sets == CommandsAt(ISCCLA_auth, ISCAuthINS_set_challenge)
        gets == CommandsAt(ISCCLA_auth, ISCAuthINS_get_response)
    IN  /\ \A i \in 2..Len(sent) : i \in resets \cup sets \cup gets
        /\ Len(sent) >= 2 => resets = {2}
        /\ \A i \in sets, j \in gets : i < j
        /\ gets # {} =>
             /\ sets # {} /\ Len(nonce) = NonceSize /\ nonce_io = Len(nonce)
             /\ PayloadsJoined(First(sets), Last(sets)) = nonce
        /\ HopStarted =>
             /\ gets # {} /\ Len(chunks) = sizeof_DS4Response
             /\ sizeof_DS4Response = 1040
             /\ chunks = ResponsesJoined(First(gets), Last(gets))
             /\ response_obj = chunks

\* a run with the default page size that went through all its stages: two
\* pages out, nine pages in, both hops
C21_Witness ==
  /\ args.action = "test-auth" /\ args.page_size = 128 /\ pc = "done"
  /\ Cardinality(CommandsAt(ISCCLA_auth, ISCAuthINS_set_challenge)) = 2
  /\ Cardinality(CommandsAt(ISCCLA_auth, ISCAuthINS_get_response)) = 9
  /\ hop1 # "none" /\ hop2 # "none"

(***************************************************************************)
(* The length check after the inbound loop (lines 429-443)                 *)
(***************************************************************************)
\* the loop of line 429 has ended by its condition: a get_response was sent,
\* the loop is not running and no exchange of it raised
InboundLoopEnded ==
  /\ args.action = "test-auth"
  /\ CommandsAt(ISCCLA_auth, ISCAuthINS_get_response) # {}
  /\ pc # "recv_response" /\ exc # "SWException"

\* the bytes the get_response exchanges returned, joined
Accumulated ==
  LET gets == CommandsAt(ISCCLA_auth, ISCAuthINS_get_response)
  IN  ResponsesJoined(First(gets), Last(gets))

\* C22: in test-auth, if the bytes accumulated from the get_response
\* exchanges do not total exactly the Challenge Response Record size (1040)
\* when the inbound loop ends, including when the token returns more bytes
\* than requested, the operation raises a length-mismatch error and
\* evaluates neither hop 1 nor hop 2.
C22_LengthMismatchRaises ==
  (InboundLoopEnded /\ Len(Accumulated) # 1040) =>
    /\ chunks = Accumulated
    /\ pc \in {"decode", "done"}
    /\ pc = "done" => exc = "ValueError: Unexpected response size"
    /\ ~HopStarted /\ response_obj = <<>> /\ cuk_pub = NoKey
    /\ \A text \in {"ID OK.", "ID NG.", "Response OK.", "Response NG.",
                    "Begin verification."} : ~Reported(text)

\* the token answered the one get_response of a run with a byte more than
\* was asked for, and the operation ended with the length error
C22_Witness ==
  /\ InboundLoopEnded /\ pc = "done"
  /\ exc = "ValueError: Unexpected response size"
  /\ Len(Accumulated) = sizeof_DS4Response + 1
  /\ \E i \in CommandsAt(ISCCLA_auth, ISCAuthINS_get_response) :
       Len(recv[i].resp) > ParseCommand(sent[i]).le

(***************************************************************************)
(* The fields of an exported record (lines 312-336)                        *)
(***************************************************************************)
\* the position in sent of the export exchange of field k
ExportOf(k) ==
  {i \in CommandsAt(ISCCLA_config, ISCConfigINS_export) :
     sent[i][3] = field_types[k][1]}

FieldNumbers == 1..Len(field_types)

\* the export exchange of some field returned another number of bytes than
\* the field's size
SomeFieldOfOtherSize ==
  \E k \in FieldNumbers : \E i \in ExportOf(k) :
    Len(recv[i].resp) # field_types[k][2]

\* _do_export_ds4id has returned a record
ExportReturned ==
  args.action \in {"export-ds4id", "sign-ds4id"} /\ ds4id_signed # <<>>

\* the export has ended, and not by the status of an exchange
ExportEnded ==
  /\ args.action \in {"export-ds4id", "sign-ds4id"}
  /\ CommandsAt(ISCCLA_config, ISCConfigINS_export) # {}
  /\ pc = "done" /\ exc # "SWException"

\* C23: in every Signed Identity Record returned by a successful export,
\* each of the four fields serial (16 bytes), modulus (256), exponent (256)
\* and issuer signature (256) is exactly the byte sequence the token returned
\* in the export exchange for that field; an export in which some field's
\* exchange returned a number of bytes other than that field's size ends in
\* a length-mismatch error.
C23_ExportedFieldsAsReturned ==
  /\ ExportReturned =>
       /\ <<SerialSize, ModulusSize, ExponentSize, SigSize>> = <<16, 256, 256, 256>>
       /\ \A k \in FieldNumbers :
            /\ Cardinality(ExportOf(k)) = 1
            /\ \A i \in ExportOf(k) :
                 Field(ds4id_signed, field_offset(k), field_types[k][2])
                   = recv[i].resp
  /\ (ExportEnded /\ SomeFieldOfOtherSize) =>
       /\ exc = "ValueError: Unexpected length for DS4ID block."
       /\ ds4id_signed = <<>> /\ files = <<>>

\* the same for a token of which at most one reply has another size than
\* the field asked for: the sizes cannot add up to the record's
FieldsAsReturnedUnlessTwoOff ==
  Cardinality({k \in FieldNumbers :
                 \E i \in ExportOf(k) : Len(recv[i].resp) # field_types[k][2]}) <= 1
    => C23_ExportedFieldsAsReturned

\* a record was returned although the serial came with 17 bytes and the
\* modulus with 255: its serial and modulus are not what the token returned
RecordOfShiftedFields ==
  /\ ExportReturned /\ exc = "none"
  /\ \E i \in ExportOf(1) : Len(recv[i].resp) = SerialSize + 1
  /\ \E i \in ExportOf(2) :
       /\ Len(recv[i].resp) = ModulusSize - 1
       /\ id_modulus(signed_identity_of(ds4id_signed)) # recv[i].resp

====
